---- MODULE Spec2Model ----
(***************************************************************************)
(* Payment-attempt defence and order settlement of app/main.py.            *)
(*                                                                         *)
(* The handlers process_payment and retry_payment are coroutines of one    *)
(* event loop.  The payment gateway client (square.Square) is the          *)
(* synchronous client, so a handler gives up the loop only at an await:    *)
(* process_payment has none, retry_payment has one (await request.json(),  *)
(* between the admission check and the recording of the attempt).  The     *)
(* variable running holds the request that owns the loop; suspended counts *)
(* the retry requests parked at their await.                               *)
(*                                                                         *)
(* The ledger functions create_order, update_order_payment_status and      *)
(* get_order_by_id are imported from app/database.py but are not defined   *)
(* in it; they are modelled from the OrderLedger contract of the           *)
(* specification (section 4.4).                                            *)
(***************************************************************************)
EXTENDS Integers, Sequences, FiniteSets, TLC

\* ----------------------------------------------------------------- bounds
MaxRequests == 6        \* requests started in one behaviour
MaxOrders == 1          \* orders persisted in one behaviour
MaxCalls == 2           \* gateway calls issued in one behaviour
MaxTime == 300          \* last value of the clock, in seconds
MaxSuspended == 1       \* retry requests parked at await request.json()

MaxSessions == 3        \* admin session ids issued, loaded ones included
MaxAdminRequests == 3   \* admin requests started in one behaviour
MaxAdminParked == 2     \* admin_wm requests parked at await request.form()

NumIPs == 1              \* client identities
FreshRequests == 2       \* requests started from a loaded initial state

IPs == 1 .. NumIPs
Amounts == {5000}
Currencies == {"USD", "CAD"}

\* a ticket item of the request body (TicketItem, lines 359-362)
TicketItem(quantity, price) ==
    [quantity |-> quantity, price_per_ticket_cents |-> price]

\* the item lists of well-formed requests, and those of any request the
\* endpoint accepts
PaidItems == {<< TicketItem(1, 5000) >>}
ItemLists ==
    PaidItems \cup
    {<< >>,
     << TicketItem(1, 3500) >>,
     << TicketItem(0, 2500), TicketItem(1, 5000) >>,
     << TicketItem(2, 5000), TicketItem(0 - 1, 5000) >>}

\* A text is a sequence of character codes.  Text that comes from the
\* database is coded by position, so that two different cuts of it differ.
Body(n) == [k \in 1 .. n |-> 1000 + k]

\* "SSWPA: " (line 688) and "SSWPA Retry: Order #", " - " (line 1303)
SSWPA == << 83, 83, 87, 80, 65, 58, 32 >>
SSWPA_RETRY ==
    << 83, 83, 87, 80, 65, 32, 82, 101, 116, 114, 121, 58, 32,
       79, 114, 100, 101, 114, 32, 35 >>
DASH == << 32, 45, 32 >>

\* str(order_id) for the order ids of the model
Digits(n) == << 48 + n >>

NOTE_LIMIT == 500

\* text[-limit:], the end of the text instead of its beginning
SliceFromEnd(text, limit) ==
    IF Len(text) <= limit THEN text
    ELSE SubSeq(text, Len(text) - limit + 1, Len(text))

\* text[:limit]
Slice(text, limit) ==
    IF Len(text) <= limit THEN text ELSE SubSeq(text, 1, limit)

\* a recital as the handlers see it: about is what process_payment puts after
\* "SSWPA: " (the items, the artist and the date), recital_title is what
\* get_order_by_id returns with the order
Recital(about, title) == [about |-> about, recital_title |-> title]

\* recitals with short texts, and recitals whose texts bring the description
\* to exactly NOTE_LIMIT characters and to one more
ShortRecitals == {Recital(Body(13), Body(10))}
LongRecitals ==
    {Recital(Body(NOTE_LIMIT - Len(SSWPA)),
             Body(NOTE_LIMIT - Len(SSWPA_RETRY) - 1 - Len(DASH))),
     Recital(Body(NOTE_LIMIT - Len(SSWPA) + 1),
             Body(NOTE_LIMIT - Len(SSWPA_RETRY) - Len(DASH)))}
TickSteps == {300}
OrderIds == 1 .. (MaxOrders + 1)

\* ------------------------------------------------------ program constants
NoAlert == -1           \* last_alert_time = None
ANOMALY_THRESHOLD == 60
ANOMALY_WINDOW == 60
ALERT_COOLDOWN == 900
DAY == 86400

\* the windows listed from the longest to the shortest
RATE_LIMITS_LongestFirst ==
    << [name |-> "per_day",       limit |-> 50, window |-> 86400],
       [name |-> "per_hour",      limit |-> 15, window |-> 3600],
       [name |-> "per_5_minutes", limit |-> 5,  window |-> 300] >>

RATE_LIMITS ==
    << [name |-> "per_5_minutes", limit |-> 5,  window |-> 300],
       [name |-> "per_hour",      limit |-> 15, window |-> 3600],
       [name |-> "per_day",       limit |-> 50, window |-> 86400] >>

MSG_5MIN == "Too many payment attempts. Please wait 5 minutes before trying again."
MSG_HOUR == "Too many payment attempts. Please wait before trying again."
MSG_DAY == "Daily payment limit reached. Please try again tomorrow."
MSG_RECITAL == "Recital not found"
MSG_CREATE == "Failed to create order"
MSG_PAY_FAILED == "Payment failed. Please try again."
MSG_PAY_OK == "Payment processed successfully!"
MSG_PAY_ERROR == "An error occurred while processing your payment."
MSG_REQUIRED == "Order ID and source ID are required"
MSG_NOT_FOUND == "Order not found"
MSG_NOT_RETRYABLE == "Order payment cannot be retried"
MSG_RETRY_FAILED == "Payment retry failed. Please try again."
MSG_RETRY_OK == "Payment completed successfully!"
MSG_RETRY_ERROR == "An error occurred while processing your payment. Please try again."

\* What client.payments.create can hand back to the handler:
\*   ok            a payment object, no errors, status not FAILED
\*   errors        a non-empty error list
\*   failed_status a payment object whose status is FAILED, no errors
\*   no_payment    neither errors nor a payment object
\*   raise         the call raises and the gateway has charged nothing
\*                 (transport or API error)
\*   timeout       the call raises because the answer never arrived, after
\*                 the gateway completed the charge
GatewayResults ==
    {"ok", "errors", "failed_status", "no_payment", "raise", "timeout"}

\* the outcomes in which the gateway has taken the money: the call returned
\* a payment, or it raised ("timeout") because the answer of a charge the
\* gateway had completed never arrived
ChargedResults == {"ok", "timeout"}

VARIABLES
    now,                      \* datetime.now(), in seconds
    payment_attempts,         \* IP -> deque of attempt timestamps
    global_payment_attempts,  \* deque of [timestamp, ip]
    last_alert_time,          \* NoAlert or the time of the last alert
    alerts,                   \* calls of send_security_alert
    orders,                   \* the orders table; the id is the index
    gateway_calls,            \* calls of client.payments.create
    uuid_count,               \* number of uuid.uuid4() values drawn
    emails,                   \* calls of the two order e-mail senders
    running,                  \* the request that owns the event loop
    suspended,                \* IP -> retry requests parked at their await
    request,                  \* inputs of the request served by the last step
    response,                 \* the response returned by the last step
    started,                  \* requests started so far
    admin_sessions,           \* session id -> time.time() of its creation
    issued_sessions,          \* creation times of all session ids ever issued
    reset_mark,               \* ids issued before the last successful reset
    admin_password,           \* the row of the passwords table
    admin_parked,             \* admin_wm requests at await request.form()
    admin_request,            \* inputs of the admin request served last
    admin_reply,              \* what the last admin step returned
    admin_started,            \* admin requests started so far
    tool_pc,                  \* where main() of format_ticket.py stands
    program,                  \* the data load_program_json returned
    markdown                  \* what generate_program_markdown returned

adminVars == << admin_sessions, issued_sessions, reset_mark, admin_password,
                admin_parked, admin_request, admin_reply, admin_started >>

vars == << now, payment_attempts, global_payment_attempts, last_alert_time,
           alerts, orders, gateway_calls, uuid_count, emails, running,
           suspended, request, response, started, admin_sessions,
           issued_sessions, reset_mark, admin_password, admin_parked,
           admin_request, admin_reply, admin_started, tool_pc, program,
           markdown >>

toolVars == << tool_pc, program, markdown >>

paymentVars == << now, payment_attempts, global_payment_attempts,
                  last_alert_time, alerts, orders, gateway_calls, uuid_count,
                  emails, running, suspended, request, response, started >>

Idle == [kind |-> "none", pc |-> "idle", ip |-> 0, order_id |-> 0,
         amount |-> 0, currency |-> "", call |-> 0, description |-> << >>]

NoRequest == [kind |-> "none", ip |-> 0, order_id |-> 0]

NoResponse == [kind |-> "none", success |-> FALSE, message |-> "",
               rate_limited |-> FALSE, order_id |-> 0, payment_id |-> 0,
               errors |-> "none"]

\* a response that leaves the order id out
ReplyWithoutOrder(kind, success, message, order_id, payment_id, errors) ==
    [kind |-> kind, success |-> success, message |-> message,
     rate_limited |-> FALSE, order_id |-> 0,
     payment_id |-> payment_id, errors |-> errors]

\* the response dicts of lines 725-778 and 1339-1381
Reply(kind, success, message, order_id, payment_id, errors) ==
    [kind |-> kind, success |-> success, message |-> message,
     rate_limited |-> FALSE, order_id |-> order_id,
     payment_id |-> payment_id, errors |-> errors]

\* a denial without the rate_limited flag
RateLimitedReplyUnflagged(kind, message) ==
    [kind |-> kind, success |-> FALSE, message |-> message,
     rate_limited |-> FALSE, order_id |-> 0, payment_id |-> 0,
     errors |-> "none"]

\* lines 658-662 and 1270-1274
RateLimitedReply(kind, message) ==
    [kind |-> kind, success |-> FALSE, message |-> message,
     rate_limited |-> TRUE, order_id |-> 0, payment_id |-> 0,
     errors |-> "none"]

\* ------------------------------------------------------------ rate limiter
RECURSIVE cleanup_old_attempts(_, _)
cleanup_old_attempts(q, t) ==
    IF q # << >> /\ Head(q) < t - DAY
    THEN cleanup_old_attempts(Tail(q), t)
    ELSE q

RateLimitMessage(name) ==
    IF name = "per_5_minutes" THEN MSG_5MIN
    ELSE IF name = "per_hour" THEN MSG_HOUR
    ELSE MSG_DAY

\* a window that is full only when the limit is exceeded
RECURSIVE check_windowsLoose(_, _, _)
check_windowsLoose(q, t, i) ==
    IF i > Len(RATE_LIMITS)
    THEN [allowed |-> TRUE, message |-> ""]
    ELSE LET config == RATE_LIMITS[i]
             cutoff == t - config.window
             recent_attempts == Cardinality({k \in DOMAIN q : q[k] > cutoff})
         IN  IF recent_attempts > config.limit
             THEN [allowed |-> FALSE, message |-> RateLimitMessage(config.name)]
             ELSE check_windowsLoose(q, t, i + 1)

\* a window that still counts the attempt made exactly one window ago
RECURSIVE check_windowsInclusive(_, _, _)
check_windowsInclusive(q, t, i) ==
    IF i > Len(RATE_LIMITS)
    THEN [allowed |-> TRUE, message |-> ""]
    ELSE LET config == RATE_LIMITS[i]
             cutoff == t - config.window
             recent_attempts == Cardinality({k \in DOMAIN q : q[k] >= cutoff})
         IN  IF recent_attempts >= config.limit
             THEN [allowed |-> FALSE, message |-> RateLimitMessage(config.name)]
             ELSE check_windowsInclusive(q, t, i + 1)

RECURSIVE check_windows(_, _, _)
check_windows(q, t, i) ==
    IF i > Len(RATE_LIMITS)
    THEN [allowed |-> TRUE, message |-> ""]
    ELSE LET config == RATE_LIMITS[i]
             cutoff == t - config.window
             recent_attempts == Cardinality({k \in DOMAIN q : q[k] > cutoff})
         IN  IF recent_attempts >= config.limit
             THEN [allowed |-> FALSE, message |-> RateLimitMessage(config.name)]
             ELSE check_windows(q, t, i + 1)

check_rate_limit(q, t) == check_windows(cleanup_old_attempts(q, t), t, 1)

\* ------------------------------------------------------- anomaly detector
\* a pruning that also drops the entry made exactly 60 seconds ago
RECURSIVE cleanup_global_attemptsInclusive(_, _)
cleanup_global_attemptsInclusive(g, t) ==
    IF g # << >> /\ Head(g).timestamp <= t - ANOMALY_WINDOW
    THEN cleanup_global_attemptsInclusive(Tail(g), t)
    ELSE g

RECURSIVE cleanup_global_attempts(_, _)
cleanup_global_attempts(g, t) ==
    IF g # << >> /\ Head(g).timestamp < t - ANOMALY_WINDOW
    THEN cleanup_global_attempts(Tail(g), t)
    ELSE g

\* the alert as send_security_alert composes it; delivered is what the call
\* returns (False when the e-mail could not be sent)
send_security_alert(g, attempt_count, detection_time, delivered) ==
    [count |-> attempt_count, time |-> detection_time,
     ips |-> {g[k].ip : k \in DOMAIN g}, delivered |-> delivered]

\* a cooldown that ends at exactly fifteen minutes
AlertDueInclusive(g, last, t) ==
    /\ Len(g) >= ANOMALY_THRESHOLD
    /\ (last = NoAlert \/ t - last >= ALERT_COOLDOWN)

\* lines 104-106: the threshold test and the cooldown test
AlertDue(g, last, t) ==
    /\ Len(g) >= ANOMALY_THRESHOLD
    /\ (last = NoAlert \/ t - last > ALERT_COOLDOWN)

\* an alert that leaves last_alert_time as it was
record_payment_attemptNoStamp(pa, ip) ==
    LET g == cleanup_global_attempts(
                 Append(global_payment_attempts, [timestamp |-> now, ip |-> ip]), now)
    IN  /\ payment_attempts' = [pa EXCEPT ![ip] = Append(@, now)]
        /\ global_payment_attempts' = g
        /\ IF AlertDue(g, last_alert_time, now)
           THEN /\ \E delivered \in BOOLEAN :
                     alerts' = Append(alerts,
                                   send_security_alert(g, Len(g), now, delivered))
                /\ UNCHANGED last_alert_time
           ELSE UNCHANGED << alerts, last_alert_time >>

\* an alert composed from the global deque before it was pruned
record_payment_attemptAlertsUnpruned(pa, ip) ==
    LET g0 == Append(global_payment_attempts, [timestamp |-> now, ip |-> ip])
        g == cleanup_global_attempts(g0, now)
    IN  /\ payment_attempts' = [pa EXCEPT ![ip] = Append(@, now)]
        /\ global_payment_attempts' = g
        /\ IF AlertDue(g, last_alert_time, now)
           THEN /\ \E delivered \in BOOLEAN :
                     alerts' = Append(alerts,
                                   send_security_alert(g0, Len(g0), now, delivered))
                /\ last_alert_time' = now
           ELSE UNCHANGED << alerts, last_alert_time >>

\* an alert that starts the cooldown only when it was delivered
record_payment_attemptStampsDelivered(pa, ip) ==
    LET g == cleanup_global_attempts(
                 Append(global_payment_attempts, [timestamp |-> now, ip |-> ip]), now)
    IN  /\ payment_attempts' = [pa EXCEPT ![ip] = Append(@, now)]
        /\ global_payment_attempts' = g
        /\ IF AlertDue(g, last_alert_time, now)
           THEN \E delivered \in BOOLEAN :
                   /\ alerts' = Append(alerts,
                                    send_security_alert(g, Len(g), now, delivered))
                   /\ last_alert_time' =
                         IF delivered THEN now ELSE last_alert_time
           ELSE UNCHANGED << alerts, last_alert_time >>

\* record_payment_attempt(ip), check_for_anomaly() included; pa is the
\* attempt map the call finds (pruned by the admission check or not)
record_payment_attempt(pa, ip) ==
    LET g == cleanup_global_attempts(
                 Append(global_payment_attempts, [timestamp |-> now, ip |-> ip]), now)
    IN  /\ payment_attempts' = [pa EXCEPT ![ip] = Append(@, now)]
        /\ global_payment_attempts' = g
        /\ IF AlertDue(g, last_alert_time, now)
           THEN /\ \E delivered \in BOOLEAN :
                     alerts' = Append(alerts,
                                   send_security_alert(g, Len(g), now, delivered))
                /\ last_alert_time' = now
           ELSE UNCHANGED << alerts, last_alert_time >>

\* the attempt map as the admission check leaves it: ip's deque pruned
Pruned(ip) ==
    [payment_attempts EXCEPT ![ip] = cleanup_old_attempts(@, now)]

\* an admission that the burst detector can veto
AdmittedUnlessBurst(ip) ==
    /\ check_rate_limit(payment_attempts[ip], now).allowed
    /\ Len(global_payment_attempts) < ANOMALY_THRESHOLD - 1

\* lines 656 and 1268: the outcome of the admission check
Admitted(ip) == check_rate_limit(payment_attempts[ip], now).allowed

\* ------------------------------------------------------------------ ledger
\* the order and its items are persisted as given; recital_title is what
\* get_order_by_id will return with the order
create_order(os, order_data, order_items) ==
    Append(os, [payment_status |-> order_data.payment_status,
                square_payment_id |-> 0,
                total_amount_cents |-> order_data.total_amount_cents,
                notes |-> order_data.notes,
                recital_title |-> order_data.recital.recital_title,
                items |-> order_items])

update_order_payment_status(os, order_id, status, payment_id) ==
    IF order_id \in DOMAIN os
    THEN [os EXCEPT ![order_id] =
             [@ EXCEPT !.payment_status = status,
                       !.square_payment_id = IF payment_id # 0 THEN payment_id ELSE @]]
    ELSE os

get_order_by_id(os, order_id) == order_id \in DOMAIN os

\* ----------------------------------------------------------------- gateway
\* uuid.uuid4(): a value no earlier draw returned
uuid4(drawn) == drawn + 1

\* a key taken from the order instead of a fresh draw
IdempotencyKeyPerOrder(order_id, drawn) == order_id

\* idempotency_key = str(uuid.uuid4()), lines 706 and 1300
IdempotencyKey(order_id, drawn) == uuid4(drawn)

HasPayment(result) == result \in {"ok", "failed_status"}

\* ------------------------------------------------------------- settlement
\* the except branch without its ledger update
ProcessSettlementNoForce(result) ==
    IF result = "errors"
    THEN [status |-> "failed", store_id |-> FALSE, success |-> FALSE,
          message |-> MSG_PAY_FAILED, errors |-> "gateway_details",
          send_emails |-> FALSE]
    ELSE IF result \in {"ok", "failed_status"}
    THEN [status |-> "completed", store_id |-> TRUE, success |-> TRUE,
          message |-> MSG_PAY_OK, errors |-> "none", send_emails |-> TRUE]
    ELSE [status |-> "unchanged", store_id |-> FALSE, success |-> FALSE,
          message |-> MSG_PAY_ERROR, errors |-> "none", send_emails |-> FALSE]

\* the success branch updating the status without the payment id
ProcessSettlementDropsId(result) ==
    IF result = "errors"
    THEN [status |-> "failed", store_id |-> FALSE, success |-> FALSE,
          message |-> MSG_PAY_FAILED, errors |-> "gateway_details",
          send_emails |-> FALSE]
    ELSE IF result \in {"ok", "failed_status"}
    THEN [status |-> "completed", store_id |-> FALSE, success |-> TRUE,
          message |-> MSG_PAY_OK, errors |-> "none", send_emails |-> TRUE]
    ELSE [status |-> "failed", store_id |-> FALSE, success |-> FALSE,
          message |-> MSG_PAY_ERROR, errors |-> "none", send_emails |-> FALSE]

\* the error list of the gateway's answer is not looked at
ProcessSettlementIgnoresErrors(result) ==
    IF result \in {"ok", "failed_status", "errors"}
    THEN [status |-> "completed", store_id |-> TRUE, success |-> TRUE,
          message |-> MSG_PAY_OK, errors |-> "none", send_emails |-> TRUE]
    ELSE [status |-> "failed", store_id |-> FALSE, success |-> FALSE,
          message |-> MSG_PAY_ERROR, errors |-> "none", send_emails |-> FALSE]

\* process_payment, lines 721-778: what the handler does with each result of
\* the gateway call.  status "unchanged" means no ledger update is made.
ProcessSettlement(result) ==
    IF result = "errors"
    THEN [status |-> "failed", store_id |-> FALSE, success |-> FALSE,
          message |-> MSG_PAY_FAILED, errors |-> "gateway_details",
          send_emails |-> FALSE]
    ELSE IF result \in {"ok", "failed_status"}
    THEN [status |-> "completed", store_id |-> TRUE, success |-> TRUE,
          message |-> MSG_PAY_OK, errors |-> "none", send_emails |-> TRUE]
    ELSE \* payment.id on no payment object, or the call raised: except branch
         [status |-> "failed", store_id |-> FALSE, success |-> FALSE,
          message |-> MSG_PAY_ERROR, errors |-> "none", send_emails |-> FALSE]

\* the except branch putting the order back to processing
RetrySettlementResets(result) ==
    IF result = "errors"
    THEN [status |-> "failed", store_id |-> FALSE, success |-> FALSE,
          message |-> MSG_RETRY_FAILED, errors |-> "gateway_details",
          send_emails |-> FALSE]
    ELSE IF result = "failed_status"
    THEN [status |-> "failed", store_id |-> FALSE, success |-> FALSE,
          message |-> MSG_RETRY_FAILED, errors |-> "Payment failed",
          send_emails |-> FALSE]
    ELSE IF result = "ok"
    THEN [status |-> "completed", store_id |-> TRUE, success |-> TRUE,
          message |-> MSG_RETRY_OK, errors |-> "none", send_emails |-> TRUE]
    ELSE [status |-> "processing", store_id |-> FALSE, success |-> FALSE,
          message |-> MSG_RETRY_ERROR, errors |-> "none", send_emails |-> FALSE]

\* the success branch updating the status without the payment id
RetrySettlementDropsId(result) ==
    IF result = "errors"
    THEN [status |-> "failed", store_id |-> FALSE, success |-> FALSE,
          message |-> MSG_RETRY_FAILED, errors |-> "gateway_details",
          send_emails |-> FALSE]
    ELSE IF result = "failed_status"
    THEN [status |-> "failed", store_id |-> FALSE, success |-> FALSE,
          message |-> MSG_RETRY_FAILED, errors |-> "Payment failed",
          send_emails |-> FALSE]
    ELSE IF result = "ok"
    THEN [status |-> "completed", store_id |-> FALSE, success |-> TRUE,
          message |-> MSG_RETRY_OK, errors |-> "none", send_emails |-> TRUE]
    ELSE [status |-> "unchanged", store_id |-> FALSE, success |-> FALSE,
          message |-> MSG_RETRY_ERROR, errors |-> "none", send_emails |-> FALSE]

\* retry_payment, lines 1317-1381
RetrySettlement(result) ==
    IF result = "errors"
    THEN [status |-> "failed", store_id |-> FALSE, success |-> FALSE,
          message |-> MSG_RETRY_FAILED, errors |-> "gateway_details",
          send_emails |-> FALSE]
    ELSE IF result = "failed_status"
    THEN [status |-> "failed", store_id |-> FALSE, success |-> FALSE,
          message |-> MSG_RETRY_FAILED, errors |-> "Payment failed",
          send_emails |-> FALSE]
    ELSE IF result = "ok"
    THEN [status |-> "completed", store_id |-> TRUE, success |-> TRUE,
          message |-> MSG_RETRY_OK, errors |-> "none", send_emails |-> TRUE]
    ELSE \* raise Exception("Payment object not found ..."), or the call
         \* raised: the except branch makes no ledger update
         [status |-> "unchanged", store_id |-> FALSE, success |-> FALSE,
          message |-> MSG_RETRY_ERROR, errors |-> "none", send_emails |-> FALSE]

\* a guard that lets every status through
RetryableStatusesAny == {"failed", "processing", "completed"}

\* line 1293: the statuses retry_payment accepts
RetryableStatuses == {"failed", "processing"}

Settle(os, order_id, s, payment_id) ==
    IF s.status = "unchanged"
    THEN os
    ELSE update_order_payment_status(os, order_id, s.status,
                                     IF s.store_id THEN payment_id ELSE 0)

\* the two e-mails of a completed order; confirmed and notified are what
\* send_order_confirmation_email and send_order_notification_email return
\* (False when the e-mail could not be sent)
OrderEmails(order_id, confirmed, notified) ==
    << [type |-> "confirmation", order_id |-> order_id, delivered |-> confirmed],
       [type |-> "notification", order_id |-> order_id, delivered |-> notified] >>

NewCall(kind, order_id, amount, currency, key, note) ==
    [kind |-> kind, order_id |-> order_id, amount |-> amount,
     currency |-> currency, key |-> key, note |-> note,
     result |-> "pending", payment_id |-> 0]

\* line 688: the description process_payment builds
ProcessDescription(recital) == SSWPA \o recital.about

\* line 1303: the description retry_payment builds
RetryDescription(order_id, recital_title) ==
    SSWPA_RETRY \o Digits(order_id) \o DASH \o recital_title

\* the gateway names the payment it created after the call that created it
PaymentId(call, result) == IF HasPayment(result) THEN call ELSE 0

CanStart == running = Idle /\ started < MaxRequests

\* -------------------------------------------------------- process_payment
\* a denial that records the attempt it turned away
PP_RateLimitedRecords(ip) ==
    /\ CanStart
    /\ ~Admitted(ip)
    /\ record_payment_attempt(Pruned(ip), ip)
    /\ request' = [kind |-> "process", ip |-> ip, order_id |-> 0]
    /\ response' = RateLimitedReply("process",
                       check_rate_limit(payment_attempts[ip], now).message)
    /\ started' = started + 1
    /\ UNCHANGED << now, orders, gateway_calls, uuid_count, emails, running,
                    suspended >>
    /\ UNCHANGED adminVars
    /\ UNCHANGED toolVars

\* lines 655-662: the admission check denies the request
PP_RateLimited(ip) ==
    /\ CanStart
    /\ ~Admitted(ip)
    /\ payment_attempts' = Pruned(ip)
    /\ request' = [kind |-> "process", ip |-> ip, order_id |-> 0]
    /\ response' = RateLimitedReply("process",
                       check_rate_limit(payment_attempts[ip], now).message)
    /\ started' = started + 1
    /\ UNCHANGED << now, global_payment_attempts, last_alert_time, alerts,
                    orders, gateway_calls, uuid_count, emails, running,
                    suspended >>
    /\ UNCHANGED adminVars
    /\ UNCHANGED toolVars

\* lines 664-669: admitted and recorded, the recital does not exist
PP_RecitalNotFound(ip) ==
    /\ CanStart
    /\ Admitted(ip)
    /\ record_payment_attempt(Pruned(ip), ip)
    /\ request' = [kind |-> "process", ip |-> ip, order_id |-> 0]
    /\ response' = Reply("process", FALSE, MSG_RECITAL, 0, 0, "none")
    /\ started' = started + 1
    /\ UNCHANGED << now, orders, gateway_calls, uuid_count, emails, running,
                    suspended >>
    /\ UNCHANGED adminVars
    /\ UNCHANGED toolVars

\* a failed creation that leaves the order behind
PP_CreateFailedLeavesOrder(ip, raised) ==
    /\ CanStart
    /\ Len(orders) < MaxOrders
    /\ Admitted(ip)
    /\ record_payment_attempt(Pruned(ip), ip)
    /\ \E amount \in Amounts, items \in PaidItems, recital \in ShortRecitals :
          orders' = create_order(orders,
                        [recital |-> recital, total_amount_cents |-> amount,
                         payment_status |-> "processing",
                         notes |-> ProcessDescription(recital)],
                        items)
    /\ request' = [kind |-> "process", ip |-> ip, order_id |-> 0]
    /\ response' = Reply("process", FALSE,
                         IF raised THEN MSG_PAY_ERROR ELSE MSG_CREATE,
                         0, 0, "none")
    /\ started' = started + 1
    /\ UNCHANGED << now, gateway_calls, uuid_count, emails, running,
                    suspended >>
    /\ UNCHANGED adminVars
    /\ UNCHANGED toolVars

\* lines 699-701 and 774-778: create_order returns no id, or raises
PP_CreateFailed(ip, raised) ==
    /\ CanStart
    /\ Admitted(ip)
    /\ record_payment_attempt(Pruned(ip), ip)
    /\ request' = [kind |-> "process", ip |-> ip, order_id |-> 0]
    /\ response' = Reply("process", FALSE,
                         IF raised THEN MSG_PAY_ERROR ELSE MSG_CREATE,
                         0, 0, "none")
    /\ started' = started + 1
    /\ UNCHANGED << now, orders, gateway_calls, uuid_count, emails, running,
                    suspended >>
    /\ UNCHANGED adminVars
    /\ UNCHANGED toolVars

\* lines 655-699: admitted, recorded, the order is persisted as processing
PP_CreateOrder(ip, amount, currency, items, recital) ==
    /\ CanStart
    /\ Len(orders) < MaxOrders
    /\ Admitted(ip)
    /\ record_payment_attempt(Pruned(ip), ip)
    /\ orders' = create_order(orders,
                      [recital |-> recital, total_amount_cents |-> amount,
                       payment_status |-> "processing",
                       notes |-> ProcessDescription(recital)],
                      items)
    /\ running' = [kind |-> "process", pc |-> "created", ip |-> ip,
                   order_id |-> Len(orders) + 1, amount |-> amount,
                   currency |-> currency, call |-> 0,
                   description |-> ProcessDescription(recital)]
    /\ request' = [kind |-> "process", ip |-> ip, order_id |-> 0]
    /\ response' = NoResponse
    /\ started' = started + 1
    /\ UNCHANGED << now, gateway_calls, uuid_count, emails, suspended >>
    /\ UNCHANGED adminVars
    /\ UNCHANGED toolVars

\* line 703 raising, then lines 763-773: the order is forced to failed
PP_ClientFails ==
    /\ running.kind = "process"
    /\ running.pc = "created"
    /\ orders' = update_order_payment_status(orders, running.order_id, "failed", 0)
    /\ response' = Reply("process", FALSE, MSG_PAY_ERROR, running.order_id, 0, "none")
    /\ running' = Idle
    /\ UNCHANGED << now, payment_attempts, global_payment_attempts,
                    last_alert_time, alerts, gateway_calls, uuid_count, emails,
                    suspended, request, started >>
    /\ UNCHANGED adminVars
    /\ UNCHANGED toolVars

\* a call whose order is marked completed when the call is issued
PP_CallSettlesEarly ==
    /\ running.kind = "process"
    /\ running.pc = "created"
    /\ Len(gateway_calls) < MaxCalls
    /\ uuid_count' = uuid_count + 1
    /\ gateway_calls' = Append(gateway_calls,
           NewCall("process", running.order_id, running.amount,
                   running.currency,
                   IdempotencyKey(running.order_id, uuid_count),
                   Slice(running.description, NOTE_LIMIT)))
    /\ orders' = update_order_payment_status(orders, running.order_id,
                                             "completed", 0)
    /\ running' = [running EXCEPT !.pc = "charging",
                                  !.call = Len(gateway_calls) + 1]
    /\ UNCHANGED << now, payment_attempts, global_payment_attempts,
                    last_alert_time, alerts, emails, suspended,
                    request, response, started >>
    /\ UNCHANGED adminVars
    /\ UNCHANGED toolVars

\* lines 703-719: a fresh key, and the gateway call is issued
PP_Call ==
    /\ running.kind = "process"
    /\ running.pc = "created"
    /\ Len(gateway_calls) < MaxCalls
    /\ uuid_count' = uuid_count + 1
    /\ gateway_calls' = Append(gateway_calls,
           NewCall("process", running.order_id, running.amount,
                   running.currency,
                   IdempotencyKey(running.order_id, uuid_count),
                   Slice(running.description, NOTE_LIMIT)))
    /\ running' = [running EXCEPT !.pc = "charging",
                                  !.call = Len(gateway_calls) + 1]
    /\ UNCHANGED << now, payment_attempts, global_payment_attempts,
                    last_alert_time, alerts, orders, emails, suspended,
                    request, response, started >>
    /\ UNCHANGED adminVars
    /\ UNCHANGED toolVars

\* lines 721-778: the gateway call returns or raises
PP_Return(result) ==
    /\ running.kind = "process"
    /\ running.pc = "charging"
    /\ LET s == ProcessSettlement(result)
           pid == PaymentId(running.call, result)
       IN  /\ gateway_calls' = [gateway_calls EXCEPT ![running.call] =
                   [@ EXCEPT !.result = result, !.payment_id = pid]]
           /\ orders' = Settle(orders, running.order_id, s, pid)
           /\ IF s.send_emails /\ get_order_by_id(orders, running.order_id)
              THEN \E confirmed, notified \in BOOLEAN :
                      emails' = emails \o OrderEmails(running.order_id,
                                                      confirmed, notified)
              ELSE emails' = emails
           /\ response' = Reply("process", s.success, s.message,
                                running.order_id,
                                IF s.store_id THEN pid ELSE 0, s.errors)
    /\ running' = Idle
    /\ UNCHANGED << now, payment_attempts, global_payment_attempts,
                    last_alert_time, alerts, uuid_count, suspended, request,
                    started >>
    /\ UNCHANGED adminVars
    /\ UNCHANGED toolVars

\* ---------------------------------------------------------- retry_payment
CanResume(ip) == running = Idle /\ suspended[ip] > 0

Resumed(ip) == [suspended EXCEPT ![ip] = @ - 1]

\* lines 1267-1274: the admission check denies the request
RP_RateLimited(ip) ==
    /\ CanStart
    /\ ~Admitted(ip)
    /\ payment_attempts' = Pruned(ip)
    /\ request' = [kind |-> "retry", ip |-> ip, order_id |-> 0]
    /\ response' = RateLimitedReply("retry",
                       check_rate_limit(payment_attempts[ip], now).message)
    /\ started' = started + 1
    /\ UNCHANGED << now, global_payment_attempts, last_alert_time, alerts,
                    orders, gateway_calls, uuid_count, emails, running,
                    suspended >>
    /\ UNCHANGED adminVars
    /\ UNCHANGED toolVars

\* a retry_payment that keeps attempt records of its own, none so far
RP_AwaitOwnRecords(ip) ==
    /\ CanStart
    /\ suspended[ip] < MaxSuspended
    /\ check_rate_limit(<< >>, now).allowed
    /\ payment_attempts' = Pruned(ip)
    /\ suspended' = [suspended EXCEPT ![ip] = @ + 1]
    /\ started' = started + 1
    /\ UNCHANGED << now, global_payment_attempts, last_alert_time, alerts,
                    orders, gateway_calls, uuid_count, emails, running,
                    request, response >>
    /\ UNCHANGED adminVars
    /\ UNCHANGED toolVars

\* lines 1267-1277: admitted; the handler waits for the request body
RP_Await(ip) ==
    /\ CanStart
    /\ suspended[ip] < MaxSuspended
    /\ Admitted(ip)
    /\ payment_attempts' = Pruned(ip)
    /\ suspended' = [suspended EXCEPT ![ip] = @ + 1]
    /\ started' = started + 1
    /\ UNCHANGED << now, global_payment_attempts, last_alert_time, alerts,
                    orders, gateway_calls, uuid_count, emails, running,
                    request, response >>
    /\ UNCHANGED adminVars
    /\ UNCHANGED toolVars

\* line 1277 raising (no JSON body), then lines 1377-1381
RP_BadBody(ip) ==
    /\ CanResume(ip)
    /\ suspended' = Resumed(ip)
    /\ request' = [kind |-> "retry", ip |-> ip, order_id |-> 0]
    /\ response' = Reply("retry", FALSE, MSG_PAY_ERROR, 0, 0, "none")
    /\ UNCHANGED << now, payment_attempts, global_payment_attempts,
                    last_alert_time, alerts, orders, gateway_calls, uuid_count,
                    emails, running, started >>
    /\ UNCHANGED adminVars
    /\ UNCHANGED toolVars

\* lines 1277-1285: the body lacks order_id or source_id
RP_MissingFields(ip) ==
    /\ CanResume(ip)
    /\ suspended' = Resumed(ip)
    /\ record_payment_attempt(payment_attempts, ip)
    /\ request' = [kind |-> "retry", ip |-> ip, order_id |-> 0]
    /\ response' = Reply("retry", FALSE, MSG_REQUIRED, 0, 0, "none")
    /\ UNCHANGED << now, orders, gateway_calls, uuid_count, emails, running,
                    started >>
    /\ UNCHANGED adminVars
    /\ UNCHANGED toolVars

\* lines 1277-1290: the ledger has no such order
RP_NotFound(ip, order_id) ==
    /\ CanResume(ip)
    /\ ~get_order_by_id(orders, order_id)
    /\ suspended' = Resumed(ip)
    /\ record_payment_attempt(payment_attempts, ip)
    /\ request' = [kind |-> "retry", ip |-> ip, order_id |-> order_id]
    /\ response' = Reply("retry", FALSE, MSG_NOT_FOUND, 0, 0, "none")
    /\ UNCHANGED << now, orders, gateway_calls, uuid_count, emails, running,
                    started >>
    /\ UNCHANGED adminVars
    /\ UNCHANGED toolVars

\* a refusal that marks the order failed
RP_NotRetryableMarksFailed(ip, order_id) ==
    /\ CanResume(ip)
    /\ get_order_by_id(orders, order_id)
    /\ orders[order_id].payment_status \notin RetryableStatuses
    /\ suspended' = Resumed(ip)
    /\ record_payment_attempt(payment_attempts, ip)
    /\ orders' = update_order_payment_status(orders, order_id, "failed", 0)
    /\ request' = [kind |-> "retry", ip |-> ip, order_id |-> order_id]
    /\ response' = Reply("retry", FALSE, MSG_NOT_RETRYABLE, 0, 0, "none")
    /\ UNCHANGED << now, gateway_calls, uuid_count, emails, running, started >>
    /\ UNCHANGED adminVars
    /\ UNCHANGED toolVars

\* lines 1277-1294: the order is not in a retry-able state
RP_NotRetryable(ip, order_id) ==
    /\ CanResume(ip)
    /\ get_order_by_id(orders, order_id)
    /\ orders[order_id].payment_status \notin RetryableStatuses
    /\ suspended' = Resumed(ip)
    /\ record_payment_attempt(payment_attempts, ip)
    /\ request' = [kind |-> "retry", ip |-> ip, order_id |-> order_id]
    /\ response' = Reply("retry", FALSE, MSG_NOT_RETRYABLE, 0, 0, "none")
    /\ UNCHANGED << now, orders, gateway_calls, uuid_count, emails, running,
                    started >>
    /\ UNCHANGED adminVars
    /\ UNCHANGED toolVars

\* lines 1277-1297, line 1297 raising, then lines 1367-1376: no ledger update
RP_ClientFails(ip, order_id) ==
    /\ CanResume(ip)
    /\ get_order_by_id(orders, order_id)
    /\ orders[order_id].payment_status \in RetryableStatuses
    /\ suspended' = Resumed(ip)
    /\ record_payment_attempt(payment_attempts, ip)
    /\ request' = [kind |-> "retry", ip |-> ip, order_id |-> order_id]
    /\ response' = Reply("retry", FALSE, MSG_RETRY_ERROR, order_id, 0, "none")
    /\ UNCHANGED << now, orders, gateway_calls, uuid_count, emails, running,
                    started >>
    /\ UNCHANGED adminVars
    /\ UNCHANGED toolVars

\* lines 1277-1315: the guard passes, a fresh key, the gateway call is issued
\* for the order's stored total in USD
RP_Call(ip, order_id) ==
    /\ CanResume(ip)
    /\ Len(gateway_calls) < MaxCalls
    /\ get_order_by_id(orders, order_id)
    /\ orders[order_id].payment_status \in RetryableStatuses
    /\ suspended' = Resumed(ip)
    /\ record_payment_attempt(payment_attempts, ip)
    /\ uuid_count' = uuid_count + 1
    /\ gateway_calls' = Append(gateway_calls,
           NewCall("retry", order_id, orders[order_id].total_amount_cents,
                   "USD", IdempotencyKey(order_id, uuid_count),
                   Slice(RetryDescription(order_id,
                                          orders[order_id].recital_title),
                         NOTE_LIMIT)))
    /\ running' = [kind |-> "retry", pc |-> "charging", ip |-> ip,
                   order_id |-> order_id,
                   amount |-> orders[order_id].total_amount_cents,
                   currency |-> "USD", call |-> Len(gateway_calls) + 1,
                   description |->
                       RetryDescription(order_id,
                                        orders[order_id].recital_title)]
    /\ request' = [kind |-> "retry", ip |-> ip, order_id |-> order_id]
    /\ response' = NoResponse
    /\ UNCHANGED << now, orders, emails, started >>
    /\ UNCHANGED adminVars
    /\ UNCHANGED toolVars

\* a retry that answers with a failure when an e-mail could not be sent
RP_ReturnEmailFatal(result) ==
    /\ running.kind = "retry"
    /\ running.pc = "charging"
    /\ LET s == RetrySettlement(result)
           pid == PaymentId(running.call, result)
       IN  /\ gateway_calls' = [gateway_calls EXCEPT ![running.call] =
                   [@ EXCEPT !.result = result, !.payment_id = pid]]
           /\ orders' = Settle(orders, running.order_id, s, pid)
           /\ IF s.send_emails
              THEN \E confirmed, notified \in BOOLEAN :
                      /\ emails' = emails \o OrderEmails(running.order_id,
                                                         confirmed, notified)
                      /\ response' =
                            IF confirmed /\ notified
                            THEN Reply("retry", s.success, s.message,
                                       running.order_id, pid, s.errors)
                            ELSE Reply("retry", FALSE, MSG_RETRY_ERROR,
                                       running.order_id, 0, "none")
              ELSE /\ emails' = emails
                   /\ response' = Reply("retry", s.success, s.message,
                                        running.order_id,
                                        IF s.store_id THEN pid ELSE 0, s.errors)
    /\ running' = Idle
    /\ UNCHANGED << now, payment_attempts, global_payment_attempts,
                    last_alert_time, alerts, uuid_count, suspended, request,
                    started >>
    /\ UNCHANGED adminVars
    /\ UNCHANGED toolVars

\* lines 1317-1381: the gateway call returns or raises
RP_Return(result) ==
    /\ running.kind = "retry"
    /\ running.pc = "charging"
    /\ LET s == RetrySettlement(result)
           pid == PaymentId(running.call, result)
       IN  /\ gateway_calls' = [gateway_calls EXCEPT ![running.call] =
                   [@ EXCEPT !.result = result, !.payment_id = pid]]
           /\ orders' = Settle(orders, running.order_id, s, pid)
           /\ IF s.send_emails
              THEN \E confirmed, notified \in BOOLEAN :
                      emails' = emails \o OrderEmails(running.order_id,
                                                      confirmed, notified)
              ELSE emails' = emails
           /\ response' = Reply("retry", s.success, s.message,
                                running.order_id,
                                IF s.store_id THEN pid ELSE 0, s.errors)
    /\ running' = Idle
    /\ UNCHANGED << now, payment_attempts, global_payment_attempts,
                    last_alert_time, alerts, uuid_count, suspended, request,
                    started >>
    /\ UNCHANGED adminVars
    /\ UNCHANGED toolVars

\* ------------------------------------------------------------ process loss
\* The process dies while requests are in flight (section 5 of the
\* specification): the in-memory state starts afresh, the ledger stays, the
\* requests in flight get no response and a gateway call in flight is never
\* answered.
Crash ==
    /\ running # Idle \/ \E ip \in IPs : suspended[ip] > 0
    /\ payment_attempts' = [ip \in IPs |-> << >>]
    /\ global_payment_attempts' = << >>
    /\ last_alert_time' = NoAlert
    /\ running' = Idle
    /\ suspended' = [ip \in IPs |-> 0]
    /\ gateway_calls' = [i \in DOMAIN gateway_calls |->
           IF gateway_calls[i].result = "pending"
           THEN [gateway_calls[i] EXCEPT !.result = "lost"]
           ELSE gateway_calls[i]]
    /\ request' = NoRequest
    /\ response' = NoResponse
    /\ admin_sessions' = << >>
    /\ admin_parked' = << >>
    /\ UNCHANGED << now, alerts, orders, uuid_count, emails, started,
                    issued_sessions, reset_mark, admin_password,
                    admin_request, admin_reply, admin_started >>
    /\ UNCHANGED toolVars

\* ------------------------------------------- ticket_tool/format_ticket.py
\* A JSON value is a record of its kind and its value: a text is a sequence
\* of character codes, a dict is a function from its keys to JSON values.
JStr(text) == [kind |-> "str", value |-> text]
JInt(n) == [kind |-> "int", value |-> n]
JList(elements) == [kind |-> "list", value |-> elements]
JDict(fields) == [kind |-> "dict", value |-> fields]

\* "piece"
PIECE ==
    << 112, 105, 101, 99, 101 >>
\* "intermission"
INTERMISSION ==
    << 105, 110, 116, 101, 114, 109, 105, 115, 115, 105, 111, 110 >>
\* line 141
HEADING ==
    << 35, 35, 32, 80, 105, 97, 110, 111, 32, 82, 101, 99, 105, 116,
       97, 108, 32, 80, 114, 111, 103, 114, 97, 109 >>
\* lines 141 and 154
RULE ==
    << 45, 45, 45 >>
\* line 135
INTERMISSION_LINE ==
    << 35, 35, 35, 35, 32, 42, 8212, 32, 73, 78, 84, 69, 82, 77, 73,
       83, 83, 73, 79, 78, 32, 8212, 42 >>

\* text.strip()
RECURSIVE Strip(_)
Strip(text) ==
    IF text = << >> THEN text
    ELSE IF Head(text) = 32 THEN Strip(Tail(text))
    ELSE IF text[Len(text)] = 32 THEN Strip(SubSeq(text, 1, Len(text) - 1))
    ELSE text

\* text.upper() for the letters a to z
Upper(text) ==
    [k \in DOMAIN text |->
        IF text[k] >= 97 /\ text[k] <= 122 THEN text[k] - 32 ELSE text[k]]

\* str(n) for n >= 0
RECURSIVE Decimal(_)
Decimal(n) ==
    IF n < 10 THEN << 48 + n >>
    ELSE Append(Decimal(n \div 10), 48 + (n % 10))

\* f"{value}" for a text or a number
Formatted(value) ==
    IF value.kind = "str" THEN value.value ELSE Decimal(value.value)

\* the truth value Python gives a JSON value
Truthy(value) ==
    IF value.kind = "int" THEN value.value # 0
    ELSE IF value.kind = "dict" THEN DOMAIN value.value # {}
    ELSE value.value # << >>

\* lines 89-91: the field is present and is a text that is not blank
RequiredText(item, field) ==
    /\ field \in DOMAIN item.value
    /\ item.value[field].kind = "str"
    /\ Strip(item.value[field].value) # << >>

\* lines 71-106: the checks made on one item
ValidItem(item) ==
    /\ item.kind = "dict"
    /\ "type" \in DOMAIN item.value
    /\ item.value["type"] \in {JStr(PIECE), JStr(INTERMISSION)}
    /\ item.value["type"] = JStr(PIECE)
       => /\ RequiredText(item, "title")
          /\ RequiredText(item, "composer")
          /\ "movements" \in DOMAIN item.value
             => /\ item.value["movements"].kind = "list"
                /\ \A j \in DOMAIN item.value["movements"].value :
                      item.value["movements"].value[j].kind = "str"

\* validate_program_data (lines 55-108)
validate_program_data(data) ==
    /\ data.kind = "dict"
    /\ "items" \in DOMAIN data.value
    /\ data.value["items"].kind = "list"
    /\ Len(data.value["items"].value) # 0
    /\ \A i \in DOMAIN data.value["items"].value :
          ValidItem(data.value["items"].value[i])

\* what a function returns, or the exception it raises
Returned(lines) == [raised |-> FALSE, error |-> "", lines |-> lines]
Raised(error) == [raised |-> TRUE, error |-> error, lines |-> << >>]

\* format_piece (lines 111-130): item['composer'], item['years'] and
\* item['title'] are read first, each raising KeyError when the key is
\* missing; the title line is "### **title**", the composer line
\* "#### *COMPOSER*", followed by " (years)" when years is truthy
format_piece(item) ==
    IF "composer" \notin DOMAIN item.value THEN Raised("KeyError: 'composer'")
    ELSE IF "years" \notin DOMAIN item.value THEN Raised("KeyError: 'years'")
    ELSE IF "title" \notin DOMAIN item.value THEN Raised("KeyError: 'title'")
    ELSE LET composer == item.value["composer"].value
             years == item.value["years"]
             title == item.value["title"].value
             composer_line ==
                 << 35, 35, 35, 35, 32, 42 >> \o Upper(composer) \o << 42 >> \o
                 (IF Truthy(years)
                  THEN << 32, 40 >> \o Formatted(years) \o << 41 >>
                  ELSE << >>)
             movements ==
                 IF "movements" \in DOMAIN item.value
                    /\ Truthy(item.value["movements"])
                 THEN [j \in DOMAIN item.value["movements"].value |->
                          item.value["movements"].value[j].value]
                 ELSE << >>
         IN  Returned(<< << 35, 35, 35, 32, 42, 42 >> \o title \o << 42, 42 >>,
                         composer_line >> \o movements)

\* format_intermission (lines 133-135)
format_intermission == Returned(<< INTERMISSION_LINE >>)

\* lines 145-154: the sections of the items from the k-th on
RECURSIVE Sections(_, _)
Sections(items, k) ==
    IF k > Len(items) THEN Returned(<< >>)
    ELSE LET item == items[k]
             section ==
                 IF item.value["type"] = JStr(PIECE) THEN format_piece(item)
                 ELSE IF item.value["type"] = JStr(INTERMISSION)
                 THEN format_intermission
                 ELSE Returned(<< >>)
         IN  IF section.raised THEN section
             ELSE LET rest == Sections(items, k + 1)
                  IN  IF rest.raised THEN rest
                      ELSE Returned(section.lines \o << RULE >> \o rest.lines)

\* generate_program_markdown (lines 138-156)
generate_program_markdown(data) ==
    LET sections == Sections(data.value["items"].value, 1)
    IN  IF sections.raised THEN sections
        ELSE Returned(<< HEADING, RULE >> \o sections.lines)

\* the items a program.json can hold: pieces with and without years and
\* movements, with blank or non-text fields, intermissions, an unknown type
\* ("encore"), an item without type and an item that is no dict
ProgramItems ==
    LET title == JStr(<< 83, 117, 105, 116, 101 >>)
        composer == JStr(<< 98, 97, 99, 104 >>)
        years == JStr(<< 49, 54, 56, 53 >>)
        movement == JStr(<< 73, 46 >>)
        blank == JStr(<< 32, 32 >>)
        Piece(t, c) == [type |-> JStr(PIECE), title |-> t, composer |-> c]
        WithYears(fields, y) ==
            [f \in DOMAIN fields \cup {"years"} |->
                IF f = "years" THEN y ELSE fields[f]]
        WithMovements(fields, ms) ==
            [f \in DOMAIN fields \cup {"movements"} |->
                IF f = "movements" THEN ms ELSE fields[f]]
        piece == Piece(title, composer)
    IN  {JDict(WithYears(piece, years)),
         JDict(WithYears(piece, JStr(<< >>))),
         JDict(WithYears(piece, JInt(1685))),
         JDict(WithMovements(WithYears(piece, years),
                             JList(<< movement, movement >>))),
         JDict(WithMovements(WithYears(piece, years), JList(<< >>))),
         JDict(piece),
         JDict(WithMovements(piece, JList(<< movement >>))),
         JDict(WithMovements(piece, JList(<< JInt(1) >>))),
         JDict(WithMovements(piece, movement)),
         JDict(WithYears(Piece(blank, composer), years)),
         JDict(WithYears(Piece(title, JInt(7)), years)),
         JDict([type |-> JStr(PIECE), title |-> title]),
         JDict([type |-> JStr(INTERMISSION)]),
         JDict([type |-> JStr(<< 101, 110, 99, 111, 114, 101 >>)]),
         JDict(<< >>),
         title}

MaxItems == 2

\* the programs main() can load: any JSON value, with item lists of up to
\* MaxItems items
Programs ==
    {JList(<< >>), JDict(<< >>), JDict([items |-> JStr(<< 83 >>)])} \cup
    {JDict([items |-> JList(items)]) :
        items \in UNION {[1 .. n -> ProgramItems] : n \in 0 .. MaxItems}}

\* lines 180-181: the data does not pass validate_program_data, sys.exit(1)
TT_Reject ==
    /\ tool_pc = "loaded"
    /\ ~validate_program_data(program)
    /\ tool_pc' = "rejected"
    /\ UNCHANGED << program, markdown >>
    /\ UNCHANGED paymentVars
    /\ UNCHANGED adminVars

\* lines 180-184: the data passes and generate_program_markdown is called;
\* an exception it raises ends main()
TT_Generate ==
    /\ tool_pc = "loaded"
    /\ validate_program_data(program)
    /\ markdown' = generate_program_markdown(program)
    /\ tool_pc' = IF markdown'.raised THEN "raised" ELSE "generated"
    /\ UNCHANGED program
    /\ UNCHANGED paymentVars
    /\ UNCHANGED adminVars

\* lines 186-196: program.md is written, or the write fails and sys.exit(1)
TT_Write(written) ==
    /\ tool_pc = "generated"
    /\ tool_pc' = IF written THEN "written" ELSE "write_failed"
    /\ UNCHANGED << program, markdown >>
    /\ UNCHANGED paymentVars
    /\ UNCHANGED adminVars

\* the tool has not been started
ToolAtRest ==
    /\ tool_pc = "idle"
    /\ program = JDict(<< >>)
    /\ markdown = Returned(<< >>)

\* ------------------------------------------------------- admin sessions
SESSION_LIFETIME == 3600

\* a password of n characters, all of them the character c
Password(n, c) == [k \in 1 .. n |-> c]

MIN_PASSWORD == 8
PW_FIRST == Password(MIN_PASSWORD, 97)
PW_SHORT == Password(MIN_PASSWORD - 1, 98)
PW_SECOND == Password(MIN_PASSWORD + 1, 99)

\* hash_password (database.py, lines 222-227): the digest of password + salt,
\* taken as free of collisions
hash_password(password, salt) == << password, salt >>

\* the row set_admin_password writes; the salt is a fresh token
PasswordRow(password, salt) ==
    [password_hash |-> hash_password(password, salt), salt |-> salt]

\* verify_admin_password (database.py, lines 254-269)
verify_admin_password(row, password) ==
    hash_password(password, row.salt) = row.password_hash

\* the cookie values a request can carry: none (the empty string), an id
\* create_admin_session issued, or an id it never issued
NoCookie == 0
Cookies == 0 .. (MaxSessions + 1)

NoSessions == << >>

\* del admin_sessions[session_id]
Without(sessions, session_id) ==
    [id \in DOMAIN sessions \ {session_id} |-> sessions[id]]

\* a session that expires as soon as it is one hour old
is_admin_authenticatedInclusive(sessions, session_id, t) ==
    IF session_id = NoCookie \/ session_id \notin DOMAIN sessions
    THEN [authenticated |-> FALSE, sessions |-> sessions]
    ELSE IF t - sessions[session_id] >= SESSION_LIFETIME
    THEN [authenticated |-> FALSE, sessions |-> Without(sessions, session_id)]
    ELSE [authenticated |-> TRUE, sessions |-> sessions]

\* is_admin_authenticated (lines 205-216): the value returned and the
\* session map the call leaves
is_admin_authenticated(sessions, session_id, t) ==
    IF session_id = NoCookie \/ session_id \notin DOMAIN sessions
    THEN [authenticated |-> FALSE, sessions |-> sessions]
    ELSE IF t - sessions[session_id] > SESSION_LIFETIME
    THEN [authenticated |-> FALSE, sessions |-> Without(sessions, session_id)]
    ELSE [authenticated |-> TRUE, sessions |-> sessions]

\* create_admin_session (lines 218-222): admin_sessions[session_id] = t
create_admin_session(sessions, session_id, t) ==
    [id \in DOMAIN sessions \cup {session_id} |->
        IF id = session_id THEN t ELSE sessions[id]]

\* the form of a POST to /admin/wm; a field the action does not read is empty
Form(action, password, confirm_password, old_password, new_password, confirm) ==
    [action |-> action, password |-> password,
     confirm_password |-> confirm_password, old_password |-> old_password,
     new_password |-> new_password, confirm_new_password |-> confirm]

\* the forms of the actions login, create_password, reset_password and, for
\* the actions that touch neither sessions nor password, execute_query
Forms ==
    {Form("login", p, << >>, << >>, << >>, << >>) : p \in {PW_FIRST, PW_SECOND}}
    \cup
    {Form("create_password", PW_SECOND, PW_SECOND, << >>, << >>, << >>),
     Form("create_password", PW_SHORT, PW_SHORT, << >>, << >>, << >>),
     Form("create_password", PW_SECOND, PW_FIRST, << >>, << >>, << >>)}
    \cup
    {Form("reset_password", << >>, << >>, old, new[1], new[2]) :
        old \in {PW_FIRST, PW_SECOND},
        new \in {<< PW_SECOND, PW_SECOND >>, << PW_SHORT, PW_SHORT >>,
                 << PW_SECOND, PW_FIRST >>}}
    \cup
    {Form("execute_query", << >>, << >>, << >>, << >>, << >>)}

NoForm == Form("", << >>, << >>, << >>, << >>, << >>)

NoAdminRequest == [kind |-> "none", session_id |-> NoCookie, form |-> NoForm]

NoAdminReply ==
    [kind |-> "none", authenticated |-> FALSE, ok |-> FALSE, session_id |-> 0]

AdminReply(kind, authenticated, ok, session_id) ==
    [kind |-> kind, authenticated |-> authenticated, ok |-> ok,
     session_id |-> session_id]

CanStartAdmin == admin_started < MaxAdminRequests

\* the parked requests without the k-th
Unparked(k) ==
    SubSeq(admin_parked, 1, k - 1) \o SubSeq(admin_parked, k + 1, Len(admin_parked))

\* lines 819-823: ?action=logout deletes the cookie and nothing else
AW_Logout(session_id) ==
    /\ CanStartAdmin
    /\ admin_started' = admin_started + 1
    /\ admin_request' = [kind |-> "logout", session_id |-> session_id,
                         form |-> NoForm]
    /\ admin_reply' = AdminReply("logout", FALSE, TRUE, 0)
    /\ UNCHANGED << admin_sessions, issued_sessions, reset_mark, admin_password,
                    admin_parked >>
    /\ UNCHANGED paymentVars
    /\ UNCHANGED toolVars

\* a request that only asks is_admin_authenticated: GET /admin/wm (lines
\* 825-826, 1030-1036) and the admin API endpoints (lines 1098-1100)
AW_Get(session_id) ==
    /\ CanStartAdmin
    /\ LET check == is_admin_authenticated(admin_sessions, session_id, now)
       IN  /\ admin_sessions' = check.sessions
           /\ admin_reply' = AdminReply("check", check.authenticated,
                                        check.authenticated, 0)
    /\ admin_started' = admin_started + 1
    /\ admin_request' = [kind |-> "check", session_id |-> session_id,
                         form |-> NoForm]
    /\ UNCHANGED << issued_sessions, reset_mark, admin_password, admin_parked >>
    /\ UNCHANGED paymentVars
    /\ UNCHANGED toolVars

\* lines 825-830: a POST to /admin/wm asks is_admin_authenticated and waits
\* for its form
AW_Post(session_id, form) ==
    /\ CanStartAdmin
    /\ Len(admin_parked) < MaxAdminParked
    /\ LET check == is_admin_authenticated(admin_sessions, session_id, now)
       IN  /\ admin_sessions' = check.sessions
           /\ admin_parked' = Append(admin_parked,
                  [session_id |-> session_id,
                   authenticated |-> check.authenticated, form |-> form])
           /\ admin_reply' = AdminReply("post", check.authenticated, FALSE, 0)
    /\ admin_started' = admin_started + 1
    /\ admin_request' = [kind |-> "post", session_id |-> session_id,
                         form |-> form]
    /\ UNCHANGED << issued_sessions, reset_mark, admin_password >>
    /\ UNCHANGED paymentVars
    /\ UNCHANGED toolVars

\* lines 833-866: action create_password; saved is what set_admin_password
\* returns, salt the token it drew
AW_CreatePassword(k, saved, salt) ==
    /\ k \in DOMAIN admin_parked
    /\ admin_parked[k].form.action = "create_password"
    /\ LET form == admin_parked[k].form
           ok == /\ Len(form.password) >= MIN_PASSWORD
                 /\ form.password = form.confirm_password
                 /\ saved
       IN  /\ admin_password' =
                 IF ok THEN PasswordRow(form.password, salt) ELSE admin_password
           /\ admin_reply' = AdminReply("create_password",
                                        admin_parked[k].authenticated, ok, 0)
           /\ admin_request' = [kind |-> "create_password",
                                session_id |-> admin_parked[k].session_id,
                                form |-> form]
    /\ admin_parked' = Unparked(k)
    /\ UNCHANGED << admin_sessions, issued_sessions, reset_mark, admin_started >>
    /\ UNCHANGED paymentVars
    /\ UNCHANGED toolVars

\* lines 868-882: action login; a right password gets a new session
AW_Login(k) ==
    /\ k \in DOMAIN admin_parked
    /\ admin_parked[k].form.action = "login"
    /\ LET form == admin_parked[k].form
           ok == verify_admin_password(admin_password, form.password)
           session_id == Len(issued_sessions) + 1
       IN  /\ ok => Len(issued_sessions) < MaxSessions
           /\ admin_sessions' =
                 IF ok THEN create_admin_session(admin_sessions, session_id, now)
                 ELSE admin_sessions
           /\ issued_sessions' =
                 IF ok THEN Append(issued_sessions, now) ELSE issued_sessions
           /\ admin_reply' = AdminReply("login", admin_parked[k].authenticated,
                                        ok, IF ok THEN session_id ELSE 0)
           /\ admin_request' = [kind |-> "login",
                                session_id |-> admin_parked[k].session_id,
                                form |-> form]
    /\ admin_parked' = Unparked(k)
    /\ UNCHANGED << reset_mark, admin_password, admin_started >>
    /\ UNCHANGED paymentVars
    /\ UNCHANGED toolVars

\* a successful reset that leaves the sessions in place
AW_ResetPasswordKeepsSessions(k, saved, salt) ==
    /\ k \in DOMAIN admin_parked
    /\ admin_parked[k].form.action = "reset_password"
    /\ LET form == admin_parked[k].form
           ok == /\ admin_parked[k].authenticated
                 /\ verify_admin_password(admin_password, form.old_password)
                 /\ Len(form.new_password) >= MIN_PASSWORD
                 /\ form.new_password = form.confirm_new_password
                 /\ saved
       IN  /\ admin_password' =
                 IF ok THEN PasswordRow(form.new_password, salt)
                 ELSE admin_password
           /\ admin_sessions' = admin_sessions
           /\ reset_mark' = IF ok THEN Len(issued_sessions) ELSE reset_mark
           /\ admin_reply' = AdminReply("reset_password",
                                        admin_parked[k].authenticated, ok, 0)
           /\ admin_request' = [kind |-> "reset_password",
                                session_id |-> admin_parked[k].session_id,
                                form |-> form]
    /\ admin_parked' = Unparked(k)
    /\ UNCHANGED << issued_sessions, admin_started >>
    /\ UNCHANGED paymentVars
    /\ UNCHANGED toolVars

\* lines 884-901: action reset_password, read only when the request was
\* authenticated on arrival; saved is what set_admin_password returns
AW_ResetPassword(k, saved, salt) ==
    /\ k \in DOMAIN admin_parked
    /\ admin_parked[k].form.action = "reset_password"
    /\ LET form == admin_parked[k].form
           ok == /\ admin_parked[k].authenticated
                 /\ verify_admin_password(admin_password, form.old_password)
                 /\ Len(form.new_password) >= MIN_PASSWORD
                 /\ form.new_password = form.confirm_new_password
                 /\ saved
       IN  /\ admin_password' =
                 IF ok THEN PasswordRow(form.new_password, salt)
                 ELSE admin_password
           /\ admin_sessions' = IF ok THEN NoSessions ELSE admin_sessions
           /\ reset_mark' = IF ok THEN Len(issued_sessions) ELSE reset_mark
           /\ admin_reply' = AdminReply("reset_password",
                                        admin_parked[k].authenticated, ok, 0)
           /\ admin_request' = [kind |-> "reset_password",
                                session_id |-> admin_parked[k].session_id,
                                form |-> form]
    /\ admin_parked' = Unparked(k)
    /\ UNCHANGED << issued_sessions, admin_started >>
    /\ UNCHANGED paymentVars
    /\ UNCHANGED toolVars

\* lines 903-1027: the other actions of the form leave the sessions and the
\* password alone
AW_Other(k) ==
    /\ k \in DOMAIN admin_parked
    /\ admin_parked[k].form.action = "execute_query"
    /\ admin_reply' = AdminReply("execute_query",
                                 admin_parked[k].authenticated,
                                 admin_parked[k].authenticated, 0)
    /\ admin_request' = [kind |-> "execute_query",
                         session_id |-> admin_parked[k].session_id,
                         form |-> admin_parked[k].form]
    /\ admin_parked' = Unparked(k)
    /\ UNCHANGED << admin_sessions, issued_sessions, reset_mark,
                    admin_password, admin_started >>
    /\ UNCHANGED paymentVars
    /\ UNCHANGED toolVars

\* the admin state of a process that has served no admin request
AdminAtRest ==
    /\ admin_sessions = NoSessions
    /\ issued_sessions = << >>
    /\ reset_mark = 0
    /\ admin_password = PasswordRow(PW_FIRST, 0)
    /\ admin_parked = << >>
    /\ admin_request = NoAdminRequest
    /\ admin_reply = NoAdminReply
    /\ admin_started = 0

Init ==
    /\ now = 0
    /\ payment_attempts = [ip \in IPs |-> << >>]
    /\ global_payment_attempts = << >>
    /\ last_alert_time = NoAlert
    /\ alerts = << >>
    /\ orders = << >>
    /\ gateway_calls = << >>
    /\ uuid_count = 0
    /\ emails = << >>
    /\ running = Idle
    /\ suspended = [ip \in IPs |-> 0]
    /\ request = NoRequest
    /\ response = NoResponse
    /\ started = 0
    /\ AdminAtRest
    /\ ToolAtRest

\* ----------------------------------------------- loaded initial states
\* The attempt memory of a process that has been serving requests for more
\* than a day.  Time 0 is the moment the behaviour starts; earlier attempts
\* carry negative timestamps.
Repeat(n, x) == [k \in 1 .. n |-> x]

\* the other variables of a process at rest
AtRest ==
    /\ now = 0
    /\ orders = << >>
    /\ gateway_calls = << >>
    /\ uuid_count = 0
    /\ emails = << >>
    /\ running = Idle
    /\ suspended = [ip \in IPs |-> 0]
    /\ request = NoRequest
    /\ response = NoResponse
    /\ started = MaxRequests - FreshRequests
    /\ AdminAtRest
    /\ ToolAtRest

\* how many attempts identity 1 recorded at each of the instants
\* -DAY-1, -DAY, -DAY+1, -3600, -3599, -300, -299
LimiterLoads ==
    {0, 1} \X {0, 1} \X {0, 35} \X {0, 1} \X {0, 10} \X {0, 1} \X {0, 4, 5}

LimiterDeque(c) ==
    Repeat(c[1], 0 - DAY - 1) \o Repeat(c[2], 0 - DAY) \o
    Repeat(c[3], 1 - DAY) \o Repeat(c[4], 0 - 3600) \o
    Repeat(c[5], 0 - 3599) \o Repeat(c[6], 0 - 300) \o Repeat(c[7], 0 - 299)

\* the global deque as the last record_payment_attempt of q left it:
\* the entries not older than the burst window at that moment
GlobalAtRest(q, ip) ==
    LET recent == SelectSeq(q, LAMBDA a : a >= q[Len(q)] - ANOMALY_WINDOW)
    IN  [k \in DOMAIN recent |-> [timestamp |-> recent[k], ip |-> ip]]

InitLimiter ==
    /\ AtRest
    /\ \E c \in LimiterLoads :
          /\ payment_attempts =
                [ip \in IPs |-> IF ip = 1 THEN LimiterDeque(c) ELSE << >>]
          /\ global_payment_attempts =
                IF LimiterDeque(c) = << >> THEN << >>
                ELSE GlobalAtRest(LimiterDeque(c), 1)
    /\ last_alert_time = NoAlert
    /\ alerts = << >>

\* A burst of attempts of many identities during the last minute before the
\* behaviour starts: StaleIP made its attempt 61 seconds ago, the identities
\* BurstIP(j) made five attempts each, 60 seconds or 1 second ago.
StaleIP == 100

BurstIP(j) == 101 + ((j - 1) \div 5)

BurstIPs == {StaleIP} \cup {BurstIP(j) : j \in 1 .. 61}

\* how many attempts were recorded at -61 and at -60, how many at -1, and
\* how many identity 1 recorded at -299
BurstLoads == {0, 1} \X {0, 1} \X {58, 59, 60} \X {0, 5}

\* the last alert before the behaviour starts: none, or one sent just more
\* than, or exactly, fifteen minutes ago
BurstLasts == {NoAlert, 0 - ALERT_COOLDOWN - 1, 0 - ALERT_COOLDOWN}

BurstGlobal(c) ==
    [k \in 1 .. c[1] |-> [timestamp |-> 0 - ANOMALY_WINDOW - 1, ip |-> StaleIP]] \o
    [j \in 1 .. (c[2] + c[3]) |->
        [timestamp |-> IF j <= c[2] THEN 0 - ANOMALY_WINDOW ELSE 0 - 1,
         ip |-> BurstIP(j)]]

\* the timestamps of the entries of g that the identity recorded
AttemptsOf(g, ip) ==
    LET mine == SelectSeq(g, LAMBDA e : e.ip = ip)
    IN  [k \in DOMAIN mine |-> mine[k].timestamp]

\* the identities of the burst that raised the earlier alert
PriorIPs == {BurstIP(j) : j \in 1 .. ANOMALY_THRESHOLD}

\* the alert sent at the instant last, if any
PriorAlert(last) ==
    IF last = NoAlert THEN << >>
    ELSE << send_security_alert(
                [j \in 1 .. ANOMALY_THRESHOLD |->
                    [timestamp |-> last, ip |-> BurstIP(j)]],
                ANOMALY_THRESHOLD, last, TRUE) >>

InitBurst ==
    /\ AtRest
    /\ \E c \in BurstLoads, last \in BurstLasts :
          /\ Len(BurstGlobal(c)) >= ANOMALY_THRESHOLD => last # NoAlert
          /\ global_payment_attempts = BurstGlobal(c)
          /\ payment_attempts =
                [ip \in IPs \cup BurstIPs |->
                    IF ip \in IPs
                    THEN IF ip = 1 THEN Repeat(c[4], 0 - 299) ELSE << >>
                    ELSE (IF last # NoAlert /\ ip \in PriorIPs
                          THEN Repeat(5, last) ELSE << >>) \o
                         AttemptsOf(BurstGlobal(c), ip)]
          /\ last_alert_time = last
          /\ alerts = PriorAlert(last)

\* A process at rest whose one identity made none, four or five attempts 299
\* seconds ago.
OrderLoads == {0, 4, 5}

InitOrders ==
    /\ AtRest
    /\ \E n \in OrderLoads :
          /\ payment_attempts =
                [ip \in IPs |-> IF ip = 1 THEN Repeat(n, 0 - 299) ELSE << >>]
          /\ global_payment_attempts =
                IF n = 0 THEN << >> ELSE GlobalAtRest(Repeat(n, 0 - 299), 1)
    /\ last_alert_time = NoAlert
    /\ alerts = << >>

\* A process at rest whose one identity is locked out, or about to be: the
\* number of attempts it recorded, and the instant at which it recorded them.
\* Five attempts 299 seconds ago fill the 5-minute window, fifteen attempts
\* 3300 seconds ago the hour, fifty attempts 86100 seconds ago the day; each
\* of them leaves its window 300 seconds later.
LockoutLoads ==
    {<< 4, 0 - 299 >>, << 5, 0 - 299 >>, << 15, 0 - 3300 >>,
     << 50, 300 - DAY >>}

InitLockout ==
    /\ now = 0
    /\ orders = << >>
    /\ gateway_calls = << >>
    /\ uuid_count = 0
    /\ emails = << >>
    /\ running = Idle
    /\ suspended = [ip \in IPs |-> 0]
    /\ request = NoRequest
    /\ response = NoResponse
    /\ started = MaxRequests - FreshRequests - 1
    /\ AdminAtRest
    /\ ToolAtRest
    /\ \E c \in LockoutLoads :
          /\ payment_attempts =
                [ip \in IPs |-> IF ip = 1 THEN Repeat(c[1], c[2]) ELSE << >>]
          /\ global_payment_attempts = GlobalAtRest(Repeat(c[1], c[2]), 1)
    /\ last_alert_time = NoAlert
    /\ alerts = << >>

Tick ==
    /\ running = Idle
    /\ \E d \in TickSteps :
          /\ now + d <= MaxTime
          /\ now' = now + d
    /\ UNCHANGED << payment_attempts, global_payment_attempts, last_alert_time,
                    alerts, orders, gateway_calls, uuid_count, emails, running,
                    suspended, request, response, started >>
    /\ UNCHANGED adminVars
    /\ UNCHANGED toolVars

Next ==
    \/ Tick
    \/ \E ip \in IPs : PP_RateLimited(ip)
    \/ \E ip \in IPs : PP_RecitalNotFound(ip)
    \/ \E ip \in IPs, raised \in BOOLEAN : PP_CreateFailed(ip, raised)
    \/ \E ip \in IPs, amount \in Amounts, currency \in Currencies,
          items \in PaidItems, recital \in ShortRecitals :
          PP_CreateOrder(ip, amount, currency, items, recital)
    \/ PP_ClientFails
    \/ PP_Call
    \/ \E result \in GatewayResults : PP_Return(result)
    \/ \E ip \in IPs : RP_RateLimited(ip)
    \/ \E ip \in IPs : RP_Await(ip)
    \/ \E ip \in IPs : RP_BadBody(ip)
    \/ \E ip \in IPs : RP_MissingFields(ip)
    \/ \E ip \in IPs, order_id \in OrderIds : RP_NotFound(ip, order_id)
    \/ \E ip \in IPs, order_id \in OrderIds : RP_NotRetryable(ip, order_id)
    \/ \E ip \in IPs, order_id \in OrderIds : RP_ClientFails(ip, order_id)
    \/ \E ip \in IPs, order_id \in OrderIds : RP_Call(ip, order_id)
    \/ \E result \in GatewayResults : RP_Return(result)

Spec == Init /\ [][Next]_vars

NextCrash == Next \/ Crash

SpecCrash == Init /\ [][NextCrash]_vars

SpecLimiter == InitLimiter /\ [][Next]_vars

SpecBurst == InitBurst /\ [][Next]_vars

SpecLockout == InitLockout /\ [][Next]_vars

\* The sessions a process holds when the behaviour starts: none, or two that
\* were created 3301 and 3300 seconds ago, so that 300 seconds later the
\* first is older than an hour and the second is exactly one hour old.
AdminLoads ==
    {<< >>, << 0 - SESSION_LIFETIME + 299, 0 - SESSION_LIFETIME + 300 >>}

Salts == {1}

InitAdmin ==
    /\ now = 0
    /\ payment_attempts = [ip \in IPs |-> << >>]
    /\ global_payment_attempts = << >>
    /\ last_alert_time = NoAlert
    /\ alerts = << >>
    /\ orders = << >>
    /\ gateway_calls = << >>
    /\ uuid_count = 0
    /\ emails = << >>
    /\ running = Idle
    /\ suspended = [ip \in IPs |-> 0]
    /\ request = NoRequest
    /\ response = NoResponse
    /\ started = 0
    /\ \E load \in AdminLoads :
          /\ admin_sessions = load
          /\ issued_sessions = load
    /\ reset_mark = 0
    /\ admin_password = PasswordRow(PW_FIRST, 0)
    /\ admin_parked = << >>
    /\ admin_request = NoAdminRequest
    /\ admin_reply = NoAdminReply
    /\ admin_started = 0
    /\ ToolAtRest

NextAdmin ==
    \/ Tick
    \/ \E session_id \in Cookies : AW_Logout(session_id)
    \/ \E session_id \in Cookies : AW_Get(session_id)
    \/ \E session_id \in Cookies, form \in Forms : AW_Post(session_id, form)
    \/ \E k \in 1 .. MaxAdminParked, saved \in BOOLEAN, salt \in Salts :
          AW_CreatePassword(k, saved, salt)
    \/ \E k \in 1 .. MaxAdminParked : AW_Login(k)
    \/ \E k \in 1 .. MaxAdminParked, saved \in BOOLEAN, salt \in Salts :
          AW_ResetPassword(k, saved, salt)
    \/ \E k \in 1 .. MaxAdminParked : AW_Other(k)

SpecAdmin == InitAdmin /\ [][NextAdmin]_vars

\* main() of format_ticket.py: the data is loaded, validated and rendered
InitTool ==
    /\ now = 0
    /\ payment_attempts = [ip \in IPs |-> << >>]
    /\ global_payment_attempts = << >>
    /\ last_alert_time = NoAlert
    /\ alerts = << >>
    /\ orders = << >>
    /\ gateway_calls = << >>
    /\ uuid_count = 0
    /\ emails = << >>
    /\ running = Idle
    /\ suspended = [ip \in IPs |-> 0]
    /\ request = NoRequest
    /\ response = NoResponse
    /\ started = 0
    /\ AdminAtRest
    /\ tool_pc = "loaded"
    /\ program \in Programs
    /\ markdown = Returned(<< >>)

NextTool ==
    \/ TT_Reject
    \/ TT_Generate
    \/ \E written \in BOOLEAN : TT_Write(written)

SpecTool == InitTool /\ [][NextTool]_vars

\* process_payment with every item list the endpoint accepts and with
\* recitals of long texts
NextOrders ==
    \/ Next
    \/ \E ip \in IPs, amount \in Amounts, currency \in Currencies,
          items \in ItemLists, recital \in ShortRecitals :
          PP_CreateOrder(ip, amount, currency, items, recital)
    \/ \E ip \in IPs, amount \in Amounts, currency \in Currencies,
          items \in PaidItems, recital \in LongRecitals :
          PP_CreateOrder(ip, amount, currency, items, recital)

SpecOrders == InitOrders /\ [][NextOrders]_vars

\* ------------------------------------------------------------------ claims
\* the step in which the handler of the given kind receives the answer of
\* its gateway call and returns its response
Answered(kind) ==
    /\ running.kind = kind
    /\ running.pc = "charging"
    /\ running' = Idle
    /\ gateway_calls'[running.call].result \in GatewayResults

ResultOf == gateway_calls'[running.call].result

PaymentOf == gateway_calls'[running.call].payment_id

StatusChanges ==
    {<< orders[o].payment_status, orders'[o].payment_status >> :
        o \in {x \in DOMAIN orders :
                  orders'[x].payment_status # orders[x].payment_status}}

Confirmations(es, order_id) ==
    Cardinality({k \in DOMAIN es :
        es[k].type = "confirmation" /\ es[k].order_id = order_id})

\* C1: completed is terminal: once an order's payment status is completed,
\* no step of any request (nor a process loss) changes its status or its
\* external payment reference.
C1_CompletedIsTerminal ==
    [][\A o \in DOMAIN orders :
          orders[o].payment_status = "completed"
          => /\ orders'[o].payment_status = "completed"
             /\ orders'[o].square_payment_id = orders[o].square_payment_id]_vars

\* a retry was aimed at a completed order and turned away
C1_Witness ==
    /\ response.kind = "retry"
    /\ request.order_id \in DOMAIN orders
    /\ orders[request.order_id].payment_status = "completed"
    /\ orders[request.order_id].square_payment_id # 0
    /\ started >= 3

\* C2 (as stated): every change of an order's payment status is one of
\* processing->completed, processing->failed, failed->processing,
\* processing->processing; a failed order reaches completed only through
\* processing.
C2_OnlyClaimedTransitions ==
    [][StatusChanges \subseteq
          { << "processing", "completed" >>, << "processing", "failed" >>,
            << "failed", "processing" >>, << "processing", "processing" >> }]_vars

\* C2 (amended): every change of an order's payment status is one of
\* processing->completed, processing->failed, failed->completed; no request
\* puts an order back to processing, a successful retry takes a failed order
\* to completed directly.
C2_ActualTransitions ==
    [][StatusChanges \subseteq
          { << "processing", "completed" >>, << "processing", "failed" >>,
            << "failed", "completed" >> }]_vars

\* a charge answered with errors left the order failed and the retry that
\* followed completed it
C2_Witness ==
    \E j \in DOMAIN gateway_calls :
        /\ j > 1
        /\ gateway_calls[j].kind = "retry"
        /\ gateway_calls[j].result = "ok"
        /\ gateway_calls[j - 1].order_id = gateway_calls[j].order_id
        /\ gateway_calls[j - 1].result = "errors"
        /\ orders[gateway_calls[j].order_id].payment_status = "completed"

\* C3: in process_payment a gateway answer with a non-empty error list, or
\* with a payment object whose status is FAILED, leaves the order failed and
\* the response reports success = false with the gateway's error details.
C3_GatewayFailureFailsOrder ==
    [][(Answered("process") /\ ResultOf \in {"errors", "failed_status"})
          => /\ orders'[running.order_id].payment_status = "failed"
             /\ response'.success = FALSE
             /\ response'.errors # "none"]_vars

\* C4: in process_payment an exception raised after the order was created
\* leaves the order failed when the response is returned, the failure
\* response carries the order id, and no process_payment request returns
\* while its order is still processing.
C4_ExceptionForcesFailed ==
    [][(/\ running.kind = "process"
        /\ running.order_id # 0
        /\ running' = Idle
        /\ response' # NoResponse)
          => /\ orders'[running.order_id].payment_status # "processing"
             /\ response'.order_id = running.order_id
             /\ (running.pc = "created" \/ ResultOf \in {"no_payment", "raise"})
                   => /\ orders'[running.order_id].payment_status = "failed"
                      /\ response'.success = FALSE]_vars

\* process_payment answered from its except branch with an order id
C4_Witness ==
    /\ response.kind = "process"
    /\ response.message = MSG_PAY_ERROR
    /\ response.order_id \in DOMAIN orders
    /\ orders[response.order_id].payment_status = "failed"
    /\ \E i \in DOMAIN gateway_calls :
          /\ gateway_calls[i].order_id = response.order_id
          /\ gateway_calls[i].result = "raise"

\* C5: once the guard of retry_payment has passed, each gateway outcome
\* (payment without errors, error list, payment with status FAILED) leaves
\* the order with the status and the external reference that the same
\* outcome produces in process_payment.
C5_RetrySettlesLikeProcess ==
    [][(Answered("retry") /\ ResultOf \in {"ok", "errors", "failed_status"})
          => LET p == ProcessSettlement(ResultOf)
             IN  /\ orders'[running.order_id].payment_status = p.status
                 /\ orders'[running.order_id].square_payment_id =
                       IF p.store_id
                       THEN PaymentOf
                       ELSE orders[running.order_id].square_payment_id]_vars

\* C6: when the gateway call raises or times out, in process_payment or in
\* retry_payment, the order is failed afterwards and the response reports
\* success = false.
C6_TimeoutFailsOrder ==
    [][((Answered("process") \/ Answered("retry")) /\ ResultOf = "raise")
          => /\ orders'[running.order_id].payment_status = "failed"
             /\ response'.success = FALSE]_vars

\* C7: retry_payment on a completed order is turned away with "cannot be
\* retried": no gateway call is made and the order is as it was.
C7_CompletedNotRetried ==
    [][(/\ running = Idle
        /\ request'.kind = "retry"
        /\ \E ip \in IPs : suspended'[ip] < suspended[ip]
        /\ request'.order_id \in DOMAIN orders
        /\ orders[request'.order_id].payment_status = "completed")
          => /\ response'.message = MSG_NOT_RETRYABLE
             /\ response'.success = FALSE
             /\ running' = Idle
             /\ gateway_calls' = gateway_calls
             /\ orders' = orders]_vars

\* the "cannot be retried" answer was given for a completed order
C7_Witness ==
    /\ response.message = MSG_NOT_RETRYABLE
    /\ request.kind = "retry"
    /\ request.order_id \in DOMAIN orders
    /\ orders[request.order_id].payment_status = "completed"

\* C8: for an order that is failed or processing, an admitted retry whose
\* gateway call succeeds leaves the order completed with the payment id the
\* gateway returned as its external reference.
C8_RetrySuccessCompletes ==
    [][(/\ Answered("retry")
        /\ ResultOf = "ok"
        /\ orders[running.order_id].payment_status \in {"failed", "processing"})
          => /\ orders'[running.order_id].payment_status = "completed"
             /\ PaymentOf # 0
             /\ orders'[running.order_id].square_payment_id = PaymentOf
             /\ response'.success = TRUE]_vars

\* an order left processing by a lost first charge was completed by a retry
C8_Witness ==
    \E j \in DOMAIN gateway_calls :
        /\ j > 1
        /\ gateway_calls[j].kind = "retry"
        /\ gateway_calls[j].result = "ok"
        /\ gateway_calls[j - 1].order_id = gateway_calls[j].order_id
        /\ gateway_calls[j - 1].result = "lost"
        /\ orders[gateway_calls[j].order_id].payment_status = "completed"
        /\ orders[gateway_calls[j].order_id].square_payment_id =
              gateway_calls[j].payment_id

\* C9: every gateway call carries an idempotency key that no earlier gateway
\* call carried, earlier attempts for the same order included.
C9_FreshIdempotencyKey ==
    \A i, j \in DOMAIN gateway_calls :
        i # j => gateway_calls[i].key # gateway_calls[j].key

\* two charges were issued for one order, the second by retry_payment
C9_Witness ==
    \E i, j \in DOMAIN gateway_calls :
        /\ i < j
        /\ gateway_calls[i].order_id = gateway_calls[j].order_id
        /\ gateway_calls[i].kind = "process"
        /\ gateway_calls[j].kind = "retry"

\* C10: when the gateway call of process_payment succeeds the order goes
\* from processing to completed with the gateway's payment id as external
\* reference, and the buyer confirmation is invoked exactly once for the
\* request.
C10_ProcessSuccessCompletes ==
    [][(Answered("process") /\ ResultOf = "ok")
          => /\ orders[running.order_id].payment_status = "processing"
             /\ orders'[running.order_id].payment_status = "completed"
             /\ PaymentOf # 0
             /\ orders'[running.order_id].square_payment_id = PaymentOf
             /\ response'.success = TRUE
             /\ response'.payment_id = PaymentOf
             /\ Confirmations(emails', running.order_id) =
                   Confirmations(emails, running.order_id) + 1]_vars

\* process_payment completed an order and the confirmation went out once
C10_Witness ==
    /\ response.kind = "process"
    /\ response.success = TRUE
    /\ response.order_id \in DOMAIN orders
    /\ orders[response.order_id].payment_status = "completed"
    /\ orders[response.order_id].square_payment_id = response.payment_id
    /\ \E i \in DOMAIN gateway_calls :
          /\ gateway_calls[i].result = "ok"
          /\ gateway_calls[i].payment_id = response.payment_id
    /\ Confirmations(emails, response.order_id) = 1

\* the step in which a request of the identity passes through the admission
\* check: a process_payment request, or a retry_payment request up to its
\* await
CheckStep(ip) ==
    /\ started' = started + 1
    /\ \/ suspended'[ip] = suspended[ip] + 1
       \/ suspended' = suspended /\ request'.kind # "none" /\ request'.ip = ip

\* the check turned the request away
DeniedStep(ip) ==
    /\ CheckStep(ip)
    /\ suspended' = suspended
    /\ response'.rate_limited

\* the recorded attempts of q later than the instant t
Later(q, t) == Cardinality({k \in DOMAIN q : q[k] > t})

\* C11: an admission check at time now is allowed exactly when fewer than 5
\* of the identity's recorded attempts lie within the last 5 minutes, fewer
\* than 15 within the last hour and fewer than 50 within the last day; the
\* (limit+1)-th attempt inside a window is denied.
C11_AllowedIffUnderEveryLimit ==
    [][\A ip \in IPs :
          CheckStep(ip)
          => (DeniedStep(ip) <=>
                 ~(/\ Later(payment_attempts[ip], now - 300) < 5
                   /\ Later(payment_attempts[ip], now - 3600) < 15
                   /\ Later(payment_attempts[ip], now - 86400) < 50))]_vars

\* a request was denied on the day window alone: 50 attempts within the day
C11_Witness ==
    /\ response.rate_limited
    /\ response.message = MSG_DAY
    /\ Later(payment_attempts[request.ip], now - 86400) = 50
    /\ Later(payment_attempts[request.ip], now - 3600) < 15
    /\ Later(payment_attempts[request.ip], now - 300) < 5

\* C12: the windows are evaluated from the shortest to the longest and the
\* denial carries the message of the first saturated one, so with several
\* windows saturated the message is that of the shortest.
C12_ShortestSaturatedWindowWins ==
    [][\A ip \in IPs :
          DeniedStep(ip)
          => response'.message =
                IF Later(payment_attempts[ip], now - 300) >= 5 THEN MSG_5MIN
                ELSE IF Later(payment_attempts[ip], now - 3600) >= 15 THEN MSG_HOUR
                ELSE MSG_DAY]_vars

\* the hour and the day window were both saturated and the hour's message
\* was returned
C12_Witness ==
    /\ response.rate_limited
    /\ response.message = MSG_HOUR
    /\ Later(payment_attempts[request.ip], now - 3600) >= 15
    /\ Later(payment_attempts[request.ip], now - 86400) >= 50

\* C13: a recorded attempt counts toward a window exactly when it is later
\* than now - window: a denial by a window is owed to attempts from
\* now - window + 1 on only, and limit such attempts always deny.
C13_WindowBoundaryExcluded ==
    [][\A ip \in IPs :
          CheckStep(ip)
          => \A i \in DOMAIN RATE_LIMITS :
                LET from == now - RATE_LIMITS[i].window + 1
                    counted == Cardinality({k \in DOMAIN payment_attempts[ip] :
                                               payment_attempts[ip][k] >= from})
                IN  /\ counted >= RATE_LIMITS[i].limit => DeniedStep(ip)
                    /\ (/\ DeniedStep(ip)
                        /\ response'.message = RateLimitMessage(RATE_LIMITS[i].name))
                          => counted >= RATE_LIMITS[i].limit]_vars

\* a request was admitted with four attempts inside the 5-minute window and
\* one more exactly 5 minutes old
C13_Witness ==
    \E ip \in IPs :
        LET q == payment_attempts[ip]
        IN  /\ response.kind = "process"
            /\ response.message = MSG_RECITAL
            /\ request.ip = ip
            /\ q # << >>
            /\ q[Len(q)] = now
            /\ Cardinality({k \in DOMAIN q : q[k] = now - 300}) >= 1
            /\ Cardinality({k \in DOMAIN q : q[k] > now - 300}) = 5

\* new is what is left of old after dropping entries from its front,
\* followed by the entries of added
PrunedThenAdded(old, new, added) ==
    \E n \in 0 .. Len(old) : new = SubSeq(old, n + 1, Len(old)) \o added

\* the step left the identity's deque and the global deque without any new
\* entry
NothingRecorded(ip) ==
    /\ PrunedThenAdded(payment_attempts[ip], payment_attempts'[ip], << >>)
    /\ global_payment_attempts' = global_payment_attempts

\* the step appended one entry for now to the identity's deque and one to
\* the global deque
RecordedOnce(ip) ==
    /\ PrunedThenAdded(payment_attempts[ip], payment_attempts'[ip], << now >>)
    /\ PrunedThenAdded(global_payment_attempts, global_payment_attempts',
                       << [timestamp |-> now, ip |-> ip] >>)

\* a process_payment request passed the admission check
AdmittedProcessStep(ip) ==
    /\ CheckStep(ip)
    /\ suspended' = suspended
    /\ ~response'.rate_limited

\* a retry_payment request passed the admission check and waits for its body
AwaitStep(ip) == CheckStep(ip) /\ suspended'[ip] = suspended[ip] + 1

\* a retry_payment request goes on after its await
ResumeStep(ip) ==
    /\ suspended'[ip] = suspended[ip] - 1
    /\ request'.kind = "retry"
    /\ request'.ip = ip

\* the body of the retry_payment request could not be parsed
BadBodyStep(ip) ==
    /\ ResumeStep(ip)
    /\ response'.message = MSG_PAY_ERROR

InSpan(q, k, length) ==
    Cardinality({j \in DOMAIN q : q[j] > q[k] - length /\ q[j] <= q[k]})

\* C15: under any interleaving of process_payment and retry_payment requests
\* of one identity, its recorded attempts inside any 5-minute span never
\* exceed 5, inside any hour 15, inside any day 50.
C15_NoSpanOverfilled ==
    \A ip \in IPs :
        \A k \in DOMAIN payment_attempts[ip] :
            /\ InSpan(payment_attempts[ip], k, 300) <= 5
            /\ InSpan(payment_attempts[ip], k, 3600) <= 15
            /\ InSpan(payment_attempts[ip], k, 86400) <= 50

\* some window of the identity is saturated at the instant t
SomeWindowSaturated(q, t) ==
    \/ Later(q, t - 300) >= 5
    \/ Later(q, t - 3600) >= 15
    \/ Later(q, t - 86400) >= 50

\* C16: a request that meets a saturated window, at process_payment or at
\* retry_payment, creates no order, makes no gateway call and changes no
\* order; its response has success = false, rate_limited = true and the
\* message of a saturated window.
C16_DenialHasNoEffect ==
    [][\A ip \in IPs :
          (CheckStep(ip) /\ SomeWindowSaturated(payment_attempts[ip], now))
          => /\ orders' = orders
             /\ gateway_calls' = gateway_calls
             /\ emails' = emails
             /\ running' = Idle
             /\ suspended' = suspended
             /\ response'.success = FALSE
             /\ response'.rate_limited = TRUE
             /\ response'.order_id = 0
             /\ \/ /\ response'.message = MSG_5MIN
                   /\ Later(payment_attempts[ip], now - 300) >= 5
                \/ /\ response'.message = MSG_HOUR
                   /\ Later(payment_attempts[ip], now - 3600) >= 15
                \/ /\ response'.message = MSG_DAY
                   /\ Later(payment_attempts[ip], now - 86400) >= 50]_vars

\* a retry was turned away by the limiter while the order it could have
\* charged stayed as it was
C16_Witness ==
    /\ response.kind = "retry"
    /\ response.rate_limited
    /\ Len(orders) = 1
    /\ orders[1].payment_status = "failed"
    /\ Len(gateway_calls) = 1

\* the step recorded a payment attempt
AttemptStep == global_payment_attempts' # global_payment_attempts

\* the entries of the global deque that lie in the 60 seconds before now
InBurstWindow ==
    {k \in DOMAIN global_payment_attempts :
        global_payment_attempts[k].timestamp >= now - 60}

\* the count the attempt recorded at now brings the burst window to
WindowCount == Cardinality(InBurstWindow) + 1

AlertsTriggered == Len(alerts') - Len(alerts)

\* C17: with no prior alert, the attempt that brings the count of the
\* 60-second window to 60 triggers exactly one alert; an attempt made while
\* the count is at least 60 and no more than 15 minutes after the last alert
\* triggers none; an attempt made more than 15 minutes after the last alert
\* with the count still at least 60 triggers exactly one more.
C17_OneAlertPerCooldown ==
    [][AttemptStep =>
          /\ (last_alert_time = NoAlert /\ WindowCount = 60)
             => AlertsTriggered = 1
          /\ (last_alert_time # NoAlert /\ WindowCount >= 60
                /\ now - last_alert_time <= 900)
             => AlertsTriggered = 0
          /\ (last_alert_time # NoAlert /\ WindowCount >= 60
                /\ now - last_alert_time > 900)
             => AlertsTriggered = 1
          /\ SubSeq(alerts', 1, Len(alerts)) = alerts]_vars

\* the 60th attempt raised the first alert and the 61st raised none
C17_Witness ==
    /\ Len(alerts) = 1
    /\ alerts[1].count = 60
    /\ alerts[1].time = now
    /\ Len(global_payment_attempts) = 61
    /\ global_payment_attempts[61].timestamp = now

\* C18: the cooldown test and the update of last_alert_time are one step: in
\* every state last_alert_time is the time of the last alert, and two alerts
\* are never less than 15 minutes apart.
C18_AlertsSpacedByCooldown ==
    /\ last_alert_time =
          IF alerts = << >> THEN NoAlert ELSE alerts[Len(alerts)].time
    /\ \A i, j \in DOMAIN alerts :
          i < j => alerts[j].time - alerts[i].time >= 900

\* a second alert was raised 901 seconds after the first, and an attempt
\* recorded after it raised none
C18_Witness ==
    /\ Len(alerts) = 2
    /\ alerts[2].time - alerts[1].time = 901
    /\ Len(global_payment_attempts) > alerts[2].count
    /\ global_payment_attempts[Len(global_payment_attempts)].timestamp
          = alerts[2].time

\* C20: the attempt count of an alert is the number of entries the pruned
\* global deque holds when the burst is detected, and its identity set is
\* exactly the set of the identities of those entries.
C20_AlertReportsPrunedWindow ==
    [][AlertsTriggered >= 1 =>
          LET alert == alerts'[Len(alerts')]
          IN  /\ alert.time = now
              /\ alert.count = WindowCount
              /\ alert.count = Len(global_payment_attempts')
              /\ alert.ips = {global_payment_attempts[k].ip : k \in InBurstWindow}
                                \cup {request'.ip}
              /\ alert.ips = {global_payment_attempts'[k].ip :
                                 k \in DOMAIN global_payment_attempts'}]_vars

\* an alert that leaves out the identity whose attempt had just fallen out
\* of the burst window
C20_Witness ==
    \E i \in DOMAIN alerts :
        /\ alerts[i].time = now
        /\ alerts[i].count = 60
        /\ payment_attempts[StaleIP] # << >>
        /\ StaleIP \notin alerts[i].ips
        /\ 1 \in alerts[i].ips
        /\ Cardinality(alerts[i].ips) > 2

\* what a recorded process_payment request does next, told without the
\* detector's variables: it answers with one of the handler's own failures,
\* or it has created its order and goes on to the gateway
ProcessProceeds(ip) ==
    /\ PrunedThenAdded(payment_attempts[ip], payment_attempts'[ip], << now >>)
    /\ gateway_calls' = gateway_calls
    /\ emails' = emails
    /\ \/ /\ running' = Idle
          /\ orders' = orders
          /\ response'.kind = "process"
          /\ ~response'.success
          /\ ~response'.rate_limited
          /\ response'.message \in {MSG_RECITAL, MSG_CREATE, MSG_PAY_ERROR}
       \/ /\ running'.kind = "process"
          /\ running'.pc = "created"
          /\ running'.ip = ip
          /\ Len(orders') = Len(orders) + 1
          /\ response' = NoResponse

\* what a recorded retry_payment request does next, told without the
\* detector's variables
RetryProceeds(ip) ==
    /\ PrunedThenAdded(payment_attempts[ip], payment_attempts'[ip], << now >>)
    /\ orders' = orders
    /\ emails' = emails
    /\ \/ /\ running' = Idle
          /\ gateway_calls' = gateway_calls
          /\ response'.kind = "retry"
          /\ ~response'.success
          /\ ~response'.rate_limited
          /\ response'.message \in {MSG_REQUIRED, MSG_NOT_FOUND,
                                    MSG_NOT_RETRYABLE, MSG_RETRY_ERROR}
       \/ /\ running'.kind = "retry"
          /\ running'.pc = "charging"
          /\ running'.ip = ip
          /\ Len(gateway_calls') = Len(gateway_calls) + 1
          /\ response' = NoResponse

\* whatever the detector's state, every path of a request that its own
\* windows admit is open
EveryPathOpen(ip) ==
    /\ (CanStart /\ ~SomeWindowSaturated(payment_attempts[ip], now))
       => /\ ENABLED PP_RecitalNotFound(ip)
          /\ \A raised \in BOOLEAN : ENABLED PP_CreateFailed(ip, raised)
          /\ Len(orders) < MaxOrders
             => \A amount \in Amounts, currency \in Currencies,
                   items \in PaidItems, recital \in ShortRecitals :
                   ENABLED PP_CreateOrder(ip, amount, currency, items, recital)
    /\ CanResume(ip)
       => /\ ENABLED RP_MissingFields(ip)
          /\ \A order_id \in OrderIds :
                /\ ENABLED (\/ RP_NotFound(ip, order_id)
                            \/ RP_NotRetryable(ip, order_id)
                            \/ RP_ClientFails(ip, order_id))
                /\ Len(gateway_calls) < MaxCalls
                   => ENABLED (\/ RP_NotFound(ip, order_id)
                               \/ RP_NotRetryable(ip, order_id)
                               \/ RP_Call(ip, order_id))

\* C19: the detector is advisory.  Whether the recorded attempt raises an
\* alert, is suppressed by the cooldown, or raises an alert that cannot be
\* sent, the request is admitted on its own windows alone, every path of the
\* handler stays open, and the step it takes is one the handler takes by
\* itself: the detector neither denies nor aborts it.
C19_DetectorIsAdvisory ==
    /\ [](\A ip \in IPs : EveryPathOpen(ip))
    /\ [][\A ip \in IPs :
             /\ (CheckStep(ip)
                   /\ ~SomeWindowSaturated(payment_attempts[ip], now))
                => ~DeniedStep(ip)
             /\ (AttemptStep /\ request'.ip = ip /\ request'.kind = "process")
                => ProcessProceeds(ip)
             /\ (AttemptStep /\ request'.ip = ip /\ request'.kind = "retry")
                => RetryProceeds(ip)]_vars

\* the attempt raised an alert that could not be sent, and the request went
\* on to its gateway call
C19_Witness ==
    /\ alerts # << >>
    /\ alerts[Len(alerts)].time = now
    /\ ~alerts[Len(alerts)].delivered
    /\ global_payment_attempts[Len(global_payment_attempts)].ip = running.ip
    /\ running.kind = "process"
    /\ running.pc = "charging"

\* the sum over the items of quantity x unit price
RECURSIVE ItemsTotal(_)
ItemsTotal(items) ==
    IF items = << >> THEN 0
    ELSE Head(items).quantity * Head(items).price_per_ticket_cents
            + ItemsTotal(Tail(items))

\* C21: a request whose total differs from the sum over its items of
\* quantity x unit price persists no order and makes no gateway call: the
\* total of every persisted order, and of every order a charge was issued
\* for, equals that sum.
C21_TotalIsSumOfItems ==
    /\ \A o \in DOMAIN orders :
          orders[o].total_amount_cents = ItemsTotal(orders[o].items)
    /\ \A c \in DOMAIN gateway_calls :
          orders[gateway_calls[c].order_id].total_amount_cents
             = ItemsTotal(orders[gateway_calls[c].order_id].items)

\* C22: a request whose item list is empty or holds a quantity <= 0 persists
\* no order and makes no gateway call: every persisted order has at least
\* one item and all its quantities are positive.
C22_ItemsNonEmptyAndPositive ==
    \A o \in DOMAIN orders :
        /\ orders[o].items # << >>
        /\ \A k \in DOMAIN orders[o].items : orders[o].items[k].quantity > 0

\* retry_payment answers that the order does not exist or cannot be retried
RefusedRetryStep(ip) ==
    /\ ResumeStep(ip)
    /\ response'.kind = "retry"
    /\ response'.message \in {MSG_NOT_FOUND, MSG_NOT_RETRYABLE}

\* C23 (as stated): when retry_payment reports that the order does not exist
\* or cannot be retried, the orders, the identity's attempt records, the
\* global attempt sequence and last_alert_time are as they were.
C23_RefusedRetryMutatesNothing ==
    [][\A ip \in IPs :
          RefusedRetryStep(ip)
          => /\ orders' = orders
             /\ payment_attempts' = payment_attempts
             /\ global_payment_attempts' = global_payment_attempts
             /\ last_alert_time' = last_alert_time]_vars

\* C23 (amended): when retry_payment reports that the order does not exist
\* or cannot be retried, no order, no gateway call and no e-mail has changed;
\* the attempt has been recorded once in the identity's records and in the
\* global sequence, and last_alert_time changes only with an alert that this
\* attempt raised.
C23_RefusedRetryOnlyRecords ==
    [][\A ip \in IPs :
          RefusedRetryStep(ip)
          => /\ orders' = orders
             /\ gateway_calls' = gateway_calls
             /\ emails' = emails
             /\ running' = Idle
             /\ ~response'.success
             /\ RecordedOnce(ip)
             /\ \A other \in DOMAIN payment_attempts \ {ip} :
                   payment_attempts'[other] = payment_attempts[other]
             /\ IF AlertsTriggered = 1
                THEN last_alert_time' = now
                ELSE /\ AlertsTriggered = 0
                     /\ last_alert_time' = last_alert_time]_vars

\* a retry of a completed order was refused, the order kept its status and
\* its payment id, and the refused attempt raised the alert of the burst
C23_Witness ==
    /\ response.kind = "retry"
    /\ response.message = MSG_NOT_RETRYABLE
    /\ orders[request.order_id].payment_status = "completed"
    /\ orders[request.order_id].square_payment_id # 0
    /\ global_payment_attempts[Len(global_payment_attempts)]
          = [timestamp |-> now, ip |-> request.ip]
    /\ last_alert_time = now

\* the gateway call of the running request returns a successful charge
ChargeSucceeds ==
    /\ running.pc = "charging"
    /\ gateway_calls[running.call].result = "pending"
    /\ gateway_calls'[running.call].result = "ok"

\* the e-mails the step sent or tried to send
NewEmails == SubSeq(emails', Len(emails) + 1, Len(emails'))

\* C24: notification is best-effort: after a successful gateway charge the
\* order is completed with its external reference and the response reports
\* success, whether the buyer confirmation and the operator notification
\* were sent or failed.
C24_NotificationIsBestEffort ==
    [][ChargeSucceeds
          => /\ orders'[running.order_id].payment_status = "completed"
             /\ orders'[running.order_id].square_payment_id
                   = gateway_calls'[running.call].payment_id
             /\ gateway_calls'[running.call].payment_id # 0
             /\ response'.success
             /\ response'.order_id = running.order_id
             /\ response'.payment_id = gateway_calls'[running.call].payment_id
             /\ {NewEmails[k].type : k \in DOMAIN NewEmails}
                   = {"confirmation", "notification"}]_vars

\* neither e-mail of a retried order could be sent, and the order is
\* completed and reported so
C24_Witness ==
    /\ response.kind = "retry"
    /\ response.success
    /\ orders[response.order_id].payment_status = "completed"
    /\ orders[response.order_id].square_payment_id = response.payment_id
    /\ Len(emails) = 2
    /\ \A k \in DOMAIN emails :
          emails[k].order_id = response.order_id /\ ~emails[k].delivered

\* the request that holds the event loop answers
RunningAnswers ==
    /\ running # Idle
    /\ running' = Idle
    /\ response' # NoResponse

\* retry_payment fails with an exception after it read the order id
RetryRaisesStep(ip) ==
    /\ ResumeStep(ip)
    /\ response'.message = MSG_RETRY_ERROR

\* C25: every response produced after a charge was attempted for an order
\* (gateway success, gateway failure, or an exception once the order id is
\* known) contains that order's id.
C25_ResponseNamesTheOrder ==
    [][/\ RunningAnswers
          => (response'.order_id = running.order_id /\ running.order_id # 0)
       /\ \A ip \in IPs :
             RetryRaisesStep(ip)
             => (response'.order_id = request'.order_id
                   /\ request'.order_id # 0)]_vars

\* the gateway call of a process_payment request raised, and the failure
\* response names the order that was forced to failed
C25_Witness ==
    /\ response.kind = "process"
    /\ ~response.success
    /\ response.message = MSG_PAY_ERROR
    /\ response.order_id \in DOMAIN orders
    /\ orders[response.order_id].payment_status = "failed"
    /\ \E c \in DOMAIN gateway_calls :
          /\ gateway_calls[c].order_id = response.order_id
          /\ gateway_calls[c].result = "raise"

\* process_payment ends because the order could not be created
CreateFailedStep(ip) ==
    /\ AdmittedProcessStep(ip)
    /\ response'.kind = "process"
    /\ response'.message \in {MSG_CREATE, MSG_PAY_ERROR}

\* C26: when the ledger fails to create the order (it returns no id or
\* raises), process_payment makes no gateway call and no status update, no
\* order exists afterwards, and the response is a generic failure without an
\* order id.
C26_CreateFailureLeavesNothing ==
    [][\A ip \in IPs :
          CreateFailedStep(ip)
          => /\ orders' = orders
             /\ gateway_calls' = gateway_calls
             /\ uuid_count' = uuid_count
             /\ emails' = emails
             /\ running' = Idle
             /\ ~response'.success
             /\ response'.order_id = 0
             /\ response'.payment_id = 0]_vars

\* create_order raised for the first request: there is no order and no
\* gateway call, and the generic failure names no order
C26_Witness ==
    /\ response.kind = "process"
    /\ response.message = MSG_PAY_ERROR
    /\ response.order_id = 0
    /\ orders = << >>
    /\ gateway_calls = << >>
    /\ started = 1

\* the step issues a gateway call
CallIssued == Len(gateway_calls') = Len(gateway_calls) + 1

\* the step changes the payment status of the order
StatusChanged(o) ==
    /\ o \in DOMAIN orders
    /\ orders'[o].payment_status # orders[o].payment_status

\* C27: within a request the attempt records, the global attempt sequence
\* and last_alert_time are touched only before the gateway call is issued,
\* and the status of the order is updated for a charge only after the
\* gateway call has returned.
C27_LimiterBeforeCallLedgerAfter ==
    [][/\ running # Idle
          => UNCHANGED << payment_attempts, global_payment_attempts,
                          last_alert_time >>
       /\ CallIssued
          => /\ orders' = orders
             /\ gateway_calls'[Len(gateway_calls')].result = "pending"
             /\ running'.pc = "charging"
             /\ running'.call = Len(gateway_calls')
       /\ \A o \in DOMAIN orders :
             StatusChanged(o)
             => /\ running.order_id = o
                /\ \/ /\ running.pc = "charging"
                      /\ gateway_calls[running.call].order_id = o
                      /\ gateway_calls[running.call].result = "pending"
                      /\ gateway_calls'[running.call].result # "pending"
                   \/ /\ running.pc = "created"
                      /\ gateway_calls' = gateway_calls
                      /\ \A c \in DOMAIN gateway_calls :
                            gateway_calls[c].order_id # o]_vars

\* the call of a retry is in flight: the attempt is in both deques and the
\* order still has the status the retry found
C27_Witness ==
    /\ running.kind = "retry"
    /\ running.pc = "charging"
    /\ gateway_calls[running.call].result = "pending"
    /\ orders[running.order_id].payment_status = "failed"
    /\ payment_attempts[running.ip][Len(payment_attempts[running.ip])] = now
    /\ global_payment_attempts[Len(global_payment_attempts)].ip = running.ip

\* C28: every gateway charge issued for an order carries the order's stored
\* total as its amount, and all the charges of one order, the original and
\* every retry, carry the same amount and the same currency.
C28_ChargesAgreeWithOrder ==
    /\ \A c \in DOMAIN gateway_calls :
          gateway_calls[c].amount
             = orders[gateway_calls[c].order_id].total_amount_cents
    /\ \A c, d \in DOMAIN gateway_calls :
          gateway_calls[c].order_id = gateway_calls[d].order_id
          => /\ gateway_calls[c].amount = gateway_calls[d].amount
             /\ gateway_calls[c].currency = gateway_calls[d].currency

\* the description the handler of the call built for its order
DescriptionOf(call) ==
    IF call.kind = "process"
    THEN orders[call.order_id].notes
    ELSE RetryDescription(call.order_id, orders[call.order_id].recital_title)

\* C29: the note of every charge call, original or retry, has at most 500
\* characters and is the first 500 characters of the order description; a
\* description of 500 characters or fewer is sent unchanged.
C29_NoteIsFirst500Characters ==
    \A c \in DOMAIN gateway_calls :
        LET note == gateway_calls[c].note
            description == DescriptionOf(gateway_calls[c])
        IN  /\ Len(note) <= 500
            /\ Len(note) = IF Len(description) <= 500
                           THEN Len(description) ELSE 500
            /\ \A k \in DOMAIN note : note[k] = description[k]

\* a retry whose description has 501 characters was sent with a note of 500,
\* after an original charge whose description of 501 was cut as well
C29_Witness ==
    \E c, d \in DOMAIN gateway_calls :
        /\ gateway_calls[c].kind = "process"
        /\ Len(DescriptionOf(gateway_calls[c])) = 501
        /\ Len(gateway_calls[c].note) = 500
        /\ gateway_calls[d].kind = "retry"
        /\ Len(DescriptionOf(gateway_calls[d])) = 501
        /\ Len(gateway_calls[d].note) = 500

\* the charges of the order that the gateway completed
ChargesOf(o) ==
    {c \in DOMAIN gateway_calls :
        /\ gateway_calls[c].order_id = o
        /\ gateway_calls[c].result \in ChargedResults}

\* C30: under any interleaving of process_payment and retry_payment requests
\* at most one gateway charge of an order succeeds.
C30_AtMostOneChargePerOrder ==
    \A o \in DOMAIN orders : Cardinality(ChargesOf(o)) <= 1

\* the gateway calls issued for the order that returned a payment object and
\* no errors
PaidCalls(o) ==
    {c \in DOMAIN gateway_calls :
        /\ gateway_calls[c].order_id = o
        /\ HasPayment(gateway_calls[c].result)}

\* C31: in every reachable state, an order is completed only if some gateway
\* call issued for that order returned a payment without errors, and the
\* external reference stored with the order is the payment id that such a
\* call returned.
C31_CompletedHasItsPayment ==
    \A o \in DOMAIN orders :
        orders[o].payment_status = "completed"
        => \E c \in PaidCalls(o) :
              /\ gateway_calls[c].payment_id # 0
              /\ orders[o].square_payment_id = gateway_calls[c].payment_id

\* an order completed by a retry after the charge of process_payment came
\* back with errors: two calls for the order, the reference is the second's
C31_Witness ==
    \E o \in DOMAIN orders :
        /\ orders[o].payment_status = "completed"
        /\ \E c, d \in DOMAIN gateway_calls :
              /\ gateway_calls[c].order_id = o
              /\ gateway_calls[c].kind = "process"
              /\ gateway_calls[c].result = "errors"
              /\ gateway_calls[d].order_id = o
              /\ gateway_calls[d].kind = "retry"
              /\ gateway_calls[d].result = "ok"
              /\ orders[o].square_payment_id = gateway_calls[d].payment_id

\* the last call of send_security_alert could not deliver its alert
LastSendFailed ==
    /\ alerts # << >>
    /\ ~alerts[Len(alerts)].delivered
    /\ alerts[Len(alerts)].time = last_alert_time

\* C32: whenever an attempt is recorded with the count at or above the
\* threshold and the cooldown condition true, send_security_alert is called
\* once and last_alert_time becomes now, whether the alert was delivered or
\* not; after a failed send every attempt of the next 15 minutes raises no
\* alert and leaves last_alert_time alone.
C32_FailedSendStartsCooldown ==
    [][AttemptStep =>
          /\ (/\ WindowCount >= ANOMALY_THRESHOLD
              /\ (last_alert_time = NoAlert
                    \/ now - last_alert_time > ALERT_COOLDOWN))
             => /\ AlertsTriggered = 1
                /\ last_alert_time' = now
                /\ alerts'[Len(alerts')].time = now
          /\ (LastSendFailed /\ now - last_alert_time <= ALERT_COOLDOWN)
             => /\ AlertsTriggered = 0
                /\ last_alert_time' = last_alert_time]_vars

\* an alert could not be delivered, and an attempt recorded after it, with
\* the count above the threshold, raised none
C32_Witness ==
    /\ LastSendFailed
    /\ Len(global_payment_attempts) > alerts[Len(alerts)].count
    /\ Len(global_payment_attempts) > ANOMALY_THRESHOLD
    /\ global_payment_attempts[Len(global_payment_attempts)].timestamp
          >= last_alert_time

\* the recorded attempts of q that a window of a check at t, or at any later
\* instant, can count
StillCounted(q, t) == SelectSeq(q, LAMBDA a : a > t - DAY)

\* C33: denied requests never prolong a lockout: a denial leaves the attempts
\* that any later check can count exactly as they were, and a check made
\* when fewer than limit of the identity's recorded attempts lie in every
\* window admits the request, whatever was denied before.
C33_DenialsDoNotProlongLockout ==
    [][\A ip \in IPs :
          /\ DeniedStep(ip)
             => /\ SomeWindowSaturated(payment_attempts[ip], now)
                /\ StillCounted(payment_attempts'[ip], now)
                      = StillCounted(payment_attempts[ip], now)
          /\ (CheckStep(ip) /\ ~SomeWindowSaturated(payment_attempts[ip], now))
             => /\ ~DeniedStep(ip)
                /\ AwaitStep(ip) \/ RecordedOnce(ip)]_vars

\* the identity was denied twice while a window was saturated and, 300
\* seconds later, with the window clear, its retry request was admitted
C33_Witness ==
    /\ started = MaxRequests
    /\ response.rate_limited
    /\ now = 300
    /\ suspended[1] = 1
    /\ payment_attempts[1] # << >>
    /\ ~SomeWindowSaturated(payment_attempts[1], now)
    /\ SomeWindowSaturated(payment_attempts[1], 0)

\* the global sequence with the attempt of the step appended to it
GlobalAppended ==
    Append(global_payment_attempts, [timestamp |-> now, ip |-> request'.ip])

\* C34: when record_payment_attempt runs at time now, the global sequence
\* it leaves is the old one with the new entry appended and exactly the
\* entries older than now - 60 s removed; the count compared with the
\* threshold is the number of entries at or after now - 60 s, the new entry
\* included: an alert is raised exactly when that number is at least 60 and
\* the cooldown allows it, and carries that number.
C34_CountIsTheBurstWindow ==
    [][AttemptStep =>
          /\ global_payment_attempts' =
                SelectSeq(GlobalAppended,
                          LAMBDA e : e.timestamp >= now - ANOMALY_WINDOW)
          /\ Len(global_payment_attempts') = WindowCount
          /\ \A k \in DOMAIN global_payment_attempts' :
                global_payment_attempts'[k].timestamp >= now - ANOMALY_WINDOW
          /\ AlertsTriggered \in {0, 1}
          /\ AlertsTriggered = 1
                <=> /\ WindowCount >= ANOMALY_THRESHOLD
                    /\ (last_alert_time = NoAlert
                          \/ now - last_alert_time > ALERT_COOLDOWN)
          /\ AlertsTriggered = 1
                => alerts'[Len(alerts')].count = WindowCount]_vars

\* an attempt was recorded while the sequence held an entry 61 seconds old
\* and one exactly 60 seconds old: the first was removed, the second was
\* kept and counted, and the count reached the threshold
C34_Witness ==
    /\ payment_attempts[StaleIP] # << >>
    /\ global_payment_attempts # << >>
    /\ global_payment_attempts[1].timestamp = now - ANOMALY_WINDOW
    /\ global_payment_attempts[1].ip # StaleIP
    /\ global_payment_attempts[Len(global_payment_attempts)].timestamp = now
    /\ Len(global_payment_attempts) = ANOMALY_THRESHOLD
    /\ alerts # << >>
    /\ alerts[Len(alerts)].time = now
    /\ alerts[Len(alerts)].count = ANOMALY_THRESHOLD

\* a retry_payment request records its attempt after its await
RetryRecordsStep(ip) == ResumeStep(ip) /\ ~BadBodyStep(ip)

\* C35: process_payment and retry_payment share one set of attempt records
\* per identity: the attempt of an admitted request is appended to the
\* identity's one deque at either endpoint, and the admission check of
\* either endpoint denies the request exactly when a window of that deque
\* is saturated, whichever endpoint recorded the attempts in it.
C35_EndpointsShareAttemptRecords ==
    [][\A ip \in IPs :
          /\ AdmittedProcessStep(ip) => RecordedOnce(ip)
          /\ RetryRecordsStep(ip) => RecordedOnce(ip)
          /\ CheckStep(ip)
             => /\ SomeWindowSaturated(payment_attempts[ip], now)
                   <=> DeniedStep(ip)
                /\ ~SomeWindowSaturated(payment_attempts[ip], now)
                   <=> (AwaitStep(ip) \/ AdmittedProcessStep(ip))
          /\ DeniedStep(ip) => response'.kind \in {"process", "retry"}]_vars

\* a process_payment request was denied by five attempts of which at least
\* two were recorded by retry_payment (the two gateway calls are retries)
C35_Witness ==
    /\ response.kind = "process"
    /\ response.rate_limited
    /\ Later(payment_attempts[request.ip], now - 300) = 5
    /\ Len(gateway_calls) = 2
    /\ \A c \in DOMAIN gateway_calls : gateway_calls[c].kind = "retry"

\* the step of an admin request that calls is_admin_authenticated
SessionChecked ==
    /\ admin_started' = admin_started + 1
    /\ admin_request'.kind \in {"check", "post"}

\* the id was issued by create_admin_session
Issued(session_id) == session_id \in 1 .. Len(issued_sessions)

\* the id was issued and a successful password reset came after it
Cleared(session_id) == Issued(session_id) /\ session_id <= reset_mark

\* C36: is_admin_authenticated(session_id) returns true exactly when the id
\* was issued by create_admin_session, has not been cleared, and at most
\* 3600 seconds have passed since it was issued; a check made on an older
\* session removes it from the session map, and no step puts a removed
\* session back, so an expired session never authenticates again.
C36_SessionValidForOneHour ==
    /\ [][SessionChecked =>
             LET session_id == admin_request'.session_id
             IN  /\ admin_reply'.authenticated
                    <=> /\ Issued(session_id)
                        /\ ~Cleared(session_id)
                        /\ now - issued_sessions[session_id] <= 3600
                 /\ (/\ Issued(session_id)
                     /\ now - issued_sessions[session_id] > 3600)
                    => session_id \notin DOMAIN admin_sessions'
                 /\ \A other \in DOMAIN admin_sessions \ {session_id} :
                       /\ other \in DOMAIN admin_sessions'
                       /\ admin_sessions'[other] = admin_sessions[other]]_vars
    /\ [][\A session_id \in 1 .. Len(issued_sessions) :
             session_id \notin DOMAIN admin_sessions
             => session_id \notin DOMAIN admin_sessions']_vars

\* a session exactly one hour old has just authenticated, after a check of
\* a session one second older had removed that one from the map
C36_Witness ==
    /\ admin_reply.kind = "check"
    /\ admin_reply.authenticated
    /\ Issued(admin_request.session_id)
    /\ now - issued_sessions[admin_request.session_id] = 3600
    /\ reset_mark = 0
    /\ \E older \in 1 .. Len(issued_sessions) :
          /\ now - issued_sessions[older] = 3601
          /\ older \notin DOMAIN admin_sessions

\* a POST to /admin/wm with action reset_password arrives
ResetArrives ==
    /\ admin_started' = admin_started + 1
    /\ admin_request'.kind = "post"
    /\ admin_request'.form.action = "reset_password"

\* the request goes on after its await and reads its form
ResetResumes ==
    /\ Len(admin_parked') = Len(admin_parked) - 1
    /\ admin_request'.kind = "reset_password"

\* the new password of the form is too short or differs from its confirmation
BadNewPassword(form) ==
    \/ Len(form.new_password) < 8
    \/ form.new_password # form.confirm_new_password

\* the form cannot reset the password as the password table stands
FailingReset(form) ==
    \/ ~verify_admin_password(admin_password, form.old_password)
    \/ BadNewPassword(form)

\* the session of the cookie is in the map and older than an hour
Expired(session_id) ==
    /\ session_id \in DOMAIN admin_sessions
    /\ now - admin_sessions[session_id] > 3600

\* what a successful reset does, and what a failed one does once its form
\* is read
ResetOutcome ==
    ResetResumes =>
        /\ FailingReset(admin_request'.form) => ~admin_reply'.ok
        /\ ~admin_reply'.ok => admin_sessions' = admin_sessions
        /\ admin_reply'.ok
           => \A session_id \in 1 .. Len(issued_sessions) :
                 ~is_admin_authenticated(admin_sessions', session_id,
                                         now).authenticated

\* no session issued before a successful reset is in the map, whatever time
\* it is
ClearedStayOut ==
    \A session_id \in 1 .. Len(issued_sessions) :
        Cleared(session_id) => session_id \notin DOMAIN admin_sessions

C38_AcceptedProgramsRender ==
    validate_program_data(program)
    => /\ tool_pc # "raised"
       /\ ~markdown.raised
====
